---- MODULE Spec2Model ----
(***************************************************************************)
(* Model of the sosistab session engine (session.rs) and of the congestion *)
(* controller of the reliable connection (connvars.rs).                    *)
(*                                                                         *)
(*   SpecReplay : ReplayFilter driven by arbitrary add calls               *)
(*   SpecConn   : ConnVars congestion_ack / congestion_loss                *)
(*   SpecRun    : RunDecoder driven by arbitrary input calls               *)
(*   Spec       : the Session handle and the session task                  *)
(*   SpecSend   : the send loop and the frame channel, send by send        *)
(*   SpecBatch  : send_bytes and the batching loop, pass by pass           *)
(*   SpecQueue  : send_bytes and the send loop on a nearly full queue      *)
(*   SpecTask   : the three sub-loops of the session task, polled fairly   *)
(*   SpecLoss   : LossCalculator driven by arbitrary update_params calls   *)
(*                                                                         *)
(* The f64 quantities of ConnVars (cwnd, loss_rate, bdp) are fixed point,  *)
(* in units of 1/FP = 0.00001; every operation truncates to that unit, so  *)
(* a value that went through k operations is within k units of the f64     *)
(* one.                                                                    *)
(* The counters of the LossCalculator are u64 values and its samples f64    *)
(* values, both at full width (limbs of 27 bits, since TLC's integers have *)
(* 32).                                                                    *)
(* Instants and durations are integer milliseconds.                        *)
(***************************************************************************)
EXTENDS Integers, Sequences, FiniteSets, TLC

VARIABLES
    rp_filter,      \* ReplayFilter { top_seqno, bottom_seqno, seen_seqno }
    rp_last,        \* the last add call: its argument, result and pre-state
    rp_true,        \* per id, how many add calls returned true
    rp_calls,       \* number of add calls made (standalone driver)
    cv,             \* ConnVars congestion state
    clock,          \* the monotonic clock read by Instant::now(), ms
    cv_last,        \* the last congestion call: kind, inputs, pre-state
    cv_calls,       \* number of congestion calls made
    s4,             \* progress of the three-call loss scenario (history)
    decoder,        \* RunDecoder (behind the session's mutex)
    rd_last,        \* the last RunDecoder::input call: arguments, result, pre-state
    rd_asc,         \* n while the inputs so far were run_no 0, 1, .., n-1; else -1
    rd_calls,       \* number of input calls that were not part of that ascent
    rd_some,        \* run_no of each input call that returned Some, in order
    task,           \* Session::_task: "running", "panicked", "closed" or "cancelled"
    poll,           \* task "closed": the sub-loops the poll in progress has yet to run
    dropped,        \* the Session has been dropped, all its fields
    fields,         \* the fields of the Session not yet dropped, in drop order
    dropper,        \* Session::_dropper: the registered closures, in order
    registered,     \* closures ever passed to on_drop (history)
    ran,            \* per closure, how many times it has been called
    input_q,        \* the send_input / recv_input channel (decoded payloads)
    delivered,      \* every payload ever put on input_q, in order (history)
    measured_loss,  \* AtomicU8
    high_recv_frame_no,  \* AtomicU64
    total_recv_frames,   \* AtomicU64
    loss_calc,      \* recv_loop's LossCalculator
    mutex,          \* holder of the decoder mutex: "none", "recv" or "stats"
    recv_pc,        \* recv_loop: "recv", "send", "deliver" or "lock"
    recv_out,       \* recv_loop: decoded payloads not yet sent to input_q
    statreq,        \* the get_stats request channel: request ids, in order
    stats_pc,       \* stats_loop: "idle", "lock" or "stuck"
    stats_cur,      \* stats_loop: the request in hand
    reply,          \* per get_stats call: state of its reply channel and the reply
    recv_pre,       \* atomics and decoder as the last frame taken by recv_loop found them
    tosend_q,       \* the send_tosend / recv_tosend channel (payloads to send)
    accepted,       \* every payload ever put on tosend_q, in order (history)
    sb_last,        \* the last send_bytes call: payload, queue before, outcome
    sb_calls,       \* number of send_bytes calls made by the driver
    send_pc,        \* send_loop: "wait", "first", "batch", "pass", "emit" or "blocked"
    to_send,        \* send_loop: the batch buffer
    encoded,        \* send_loop: the shards of the batch being emitted
    emit_idx,       \* send_loop: index of the next shard of encoded to emit
    pending,        \* send_loop: the frame held by a suspended send_async
    send_frame_no,  \* send_loop: frame_no
    send_run_no,    \* send_loop: run_no
    send_frame,     \* the cfg.send_frame channel (frames not yet taken by the substrate)
    send_frame_open,\* the receiving end of cfg.send_frame still exists
    emitted,        \* every frame ever put on send_frame, in order (history)
    batches,        \* every batch the send loop formed, in order (history)
    emit_last,      \* the last frame put on send_frame, with the state it met (history)
    overflow_checks,\* the build has overflow checks (debug) or not (release)
    lc_last,        \* the last update_params call of the driver: arguments, pre-state, outcome
    lc_calls,       \* number of update_params calls made by the driver
    lc_hist         \* every loss sample the driver's calls recorded, in order

rpVars == <<rp_filter, rp_last, rp_true, rp_calls>>
cvVars == <<cv, clock, cv_last, cv_calls, s4>>
rdVars == <<decoder, rd_last, rd_asc, rd_calls, rd_some>>
taskVars == <<task, poll>>
handleVars == <<dropped, fields, dropper, registered, ran>>
atomicVars == <<measured_loss, high_recv_frame_no, total_recv_frames>>
recvVars == <<loss_calc, recv_pc, recv_out>>
statVars == <<statreq, stats_pc, stats_cur, reply>>
txVars == <<tosend_q, accepted, sb_last, sb_calls, send_pc, to_send, encoded, emit_idx,
            pending, send_frame_no, send_run_no, send_frame, send_frame_open,
            emitted, batches, emit_last>>
lcVars == <<lc_last, lc_calls, lc_hist, overflow_checks>>
sendVars == <<txVars, recv_pre, lcVars>>
sessVars == <<taskVars, handleVars, input_q, delivered, atomicVars, recvVars, mutex, statVars,
              sendVars>>
vars == <<rp_filter, rp_last, rp_true, rp_calls, cv, clock, cv_last, cv_calls, s4,
          decoder, rd_last, rd_asc, rd_calls, rd_some,
          task, poll, dropped, fields, dropper, registered, ran, input_q, delivered,
          measured_loss, high_recv_frame_no, total_recv_frames, loss_calc,
          mutex, recv_pc, recv_out, statreq, stats_pc, stats_cur, reply, recv_pre,
          tosend_q, accepted, sb_last, sb_calls, send_pc, to_send, encoded, emit_idx,
          pending, send_frame_no, send_run_no, send_frame, send_frame_open,
          emitted, batches, emit_last, lc_last, lc_calls, lc_hist, overflow_checks>>

Max(a, b) == IF a >= b THEN a ELSE b
Min(a, b) == IF a <= b THEN a ELSE b

(***************************************************************************)
(* ReplayFilter (session.rs 273-306)                                       *)
(***************************************************************************)
ReplayWindow == 1000

ReplayFilter_new(start) ==
    [top_seqno |-> start, bottom_seqno |-> start, seen_seqno |-> {}]

\* Variant of the window loop that advances the floor by one step only
\* ("if" in place of "while").
ReplayFilter_advance_once(self) ==
    IF self.top_seqno - self.bottom_seqno > ReplayWindow
    THEN [self EXCEPT !.seen_seqno = @ \ {self.bottom_seqno},
                      !.bottom_seqno = @ + 1]
    ELSE self

\* Variant of the window loop that keeps one id fewer ("top - bottom >= 1000").
RECURSIVE ReplayFilter_advance_tight(_)
ReplayFilter_advance_tight(self) ==
    IF self.top_seqno - self.bottom_seqno >= ReplayWindow
    THEN ReplayFilter_advance_tight(
            [self EXCEPT !.seen_seqno = @ \ {self.bottom_seqno},
                         !.bottom_seqno = @ + 1])
    ELSE self

\* while self.top_seqno - self.bottom_seqno > 1000 { remove; bottom += 1 }
RECURSIVE ReplayFilter_advance(_)
ReplayFilter_advance(self) ==
    IF self.top_seqno - self.bottom_seqno > ReplayWindow
    THEN ReplayFilter_advance(
            [self EXCEPT !.seen_seqno = @ \ {self.bottom_seqno},
                         !.bottom_seqno = @ + 1])
    ELSE self

\* Variant of add that moves top_seqno before it tests the floor.
ReplayFilter_add_early(self, seqno) ==
    IF seqno < self.bottom_seqno
    THEN [self |-> [self EXCEPT !.top_seqno = seqno], ret |-> FALSE]
    ELSE IF seqno \in self.seen_seqno
    THEN [self |-> self, ret |-> FALSE]
    ELSE [self |-> ReplayFilter_advance([self EXCEPT !.top_seqno = seqno]),
          ret  |-> TRUE]

\* fn add(&mut self, seqno) -> bool.  The set seen_seqno is consulted and
\* pruned but no statement of add inserts into it.
ReplayFilter_add(self, seqno) ==
    IF seqno < self.bottom_seqno
    THEN [self |-> self, ret |-> FALSE]
    ELSE IF seqno \in self.seen_seqno
    THEN [self |-> self, ret |-> FALSE]
    ELSE [self |-> ReplayFilter_advance([self EXCEPT !.top_seqno = seqno]),
          ret  |-> TRUE]

----
(***************************************************************************)
(* ConnVars congestion controller (connvars.rs)                            *)
(***************************************************************************)
FP == 100 * 1000                     \* fixed-point unit: 1.0 = FP

\* floor(sqrt(n)) by bisection on [lo, hi]
RECURSIVE ISqrtIn(_, _, _)
ISqrtIn(n, lo, hi) ==
    IF lo >= hi THEN lo
    ELSE LET mid == (lo + hi + 1) \div 2
         IN  IF mid * mid <= n THEN ISqrtIn(n, mid, hi)
                               ELSE ISqrtIn(n, lo, mid - 1)
ISqrt(n) == ISqrtIn(n, 0, 46340)

\* Natural numbers beyond the machine integers, as sequences of limbs in
\* base BigBase, most significant first.
BigBase == 100
BigCap == 20 * 1000 * 1000

RECURSIVE BigOf(_)
BigOf(n) == IF n < BigBase THEN <<n>> ELSE Append(BigOf(n \div BigBase), n % BigBase)

\* a * m + carry, for m < BigCap
RECURSIVE BigMulSmall(_, _, _)
BigMulSmall(a, m, carry) ==
    IF a = <<>> THEN (IF carry = 0 THEN <<>> ELSE BigOf(carry))
    ELSE LET t == a[Len(a)] * m + carry
         IN  Append(BigMulSmall(SubSeq(a, 1, Len(a) - 1), m, t \div BigBase), t % BigBase)

\* a + b + carry
RECURSIVE BigAdd(_, _, _)
BigAdd(a, b, carry) ==
    IF a = <<>> /\ b = <<>> THEN (IF carry = 0 THEN <<>> ELSE <<carry>>)
    ELSE LET x == IF a = <<>> THEN 0 ELSE a[Len(a)]
             y == IF b = <<>> THEN 0 ELSE b[Len(b)]
             t == x + y + carry
         IN  Append(BigAdd(IF a = <<>> THEN a ELSE SubSeq(a, 1, Len(a) - 1),
                           IF b = <<>> THEN b ELSE SubSeq(b, 1, Len(b) - 1),
                           t \div BigBase), t % BigBase)

\* floor(a / r) for 0 < r <= BigCap, by long division; rem is the remainder
\* brought down from the limbs already divided
RECURSIVE BigDivSmall(_, _, _)
BigDivSmall(a, r, rem) ==
    IF a = <<>> THEN <<>>
    ELSE LET t == rem * BigBase + Head(a)
         IN  <<t \div r>> \o BigDivSmall(Tail(a), r, t % r)

\* min(a, BigCap) as a machine integer; acc is the value of the limbs read
RECURSIVE BigVal(_, _)
BigVal(a, acc) ==
    IF a = <<>> THEN acc
    ELSE BigVal(Tail(a), Min(BigCap, acc * BigBase + Head(a)))

\* v * v, for 0 <= v < 2^31
BigSquare(v) ==
    LET V == BigOf(v)
    IN  BigAdd(BigMulSmall(V, v \div (BigBase * BigBase), 0) \o <<0, 0>>,
               BigMulSmall(V, v % (BigBase * BigBase), 0), 0)

\* floor of the fifth root of N, by Newton's iteration downwards from x,
\* which is at least the root and at most BigCap
RECURSIVE BigRoot5(_, _)
BigRoot5(N, x) ==
    IF x = 0 THEN 0
    ELSE LET q == BigVal(BigDivSmall(BigDivSmall(BigDivSmall(BigDivSmall(
                             N, x, 0), x, 0), x, 0), x, 0), 0)
             y == (4 * x + q) \div 5
         IN  IF y >= x THEN x ELSE BigRoot5(N, y)

\* cwnd.powf(0.4), truncated to a multiple of 1/FP: the largest r with
\* (r/FP)^5 <= (x/FP)^2, that is r^5 <= FP^3 * x^2.  sqrt(x) rounded up is
\* where the iteration starts.
Pow04(x) ==
    LET N == BigMulSmall(BigMulSmall(BigMulSmall(BigSquare(x), FP, 0), FP, 0), FP, 0)
    IN  BigRoot5(N, (ISqrt(x \div FP + 1) + 1) * FP)

\* floor((q * c + r) * f / c) for a power of ten f and 0 <= r < c, one
\* decimal digit at a time: the next digit d is the largest with
\* d * c <= 10 * r, tested without forming 10 * r
RECURSIVE ScaleDiv(_, _, _, _)
ScaleDiv(q, r, c, f) ==
    IF f <= 1 THEN q
    ELSE LET ch == c \div 10
             cl == c % 10
             d  == CHOOSE e \in 0..9 :
                      /\ e * ch + (e * cl + 9) \div 10 <= r
                      /\ e < 9 => (e + 1) * ch + ((e + 1) * cl + 9) \div 10 > r
         IN  ScaleDiv(q * 10 + d, 10 * (r - d * ch) - d * cl, c, f \div 10)

\* floor(a * FP / c): the f64 quotient a / c in units of 1/FP
FpDiv(a, c) == ScaleDiv(a \div c, a % c, c, FP)

ConnVars_default(now) ==
    [slow_start |-> TRUE, cwnd |-> 128 * FP, last_loss |-> now,
     flights |-> 0, last_flight |-> now, loss_rate |-> 0]

\* pub fn congestion_ack(&mut self); srtt is self.inflight.srtt()
ConnVars_congestion_ack(self, now, srtt) ==
    LET lr  == (self.loss_rate * 99) \div 100
        n   == Max(FP, (23 * Pow04(self.cwnd)) \div 100)
        cw  == self.cwnd + FpDiv(n * 8, self.cwnd)
        fl  == now - self.last_flight > srtt
    IN  [self EXCEPT !.loss_rate = lr,
                     !.cwnd = cw,
                     !.flights = IF fl THEN @ + 1 ELSE @,
                     !.last_flight = IF fl THEN now ELSE @]

\* Variant of congestion_loss whose debounce interval is srtt, not 2*srtt.
ConnVars_congestion_loss_srtt1(self, now, srtt, bdp) ==
    LET lr == (self.loss_rate * 99) \div 100 + FP \div 100
        ev == now - self.last_loss > srtt
    IN  [self EXCEPT !.slow_start = FALSE,
                     !.loss_rate = lr,
                     !.cwnd = IF ev THEN Min(@, Max(@ \div 2, bdp)) ELSE @,
                     !.last_loss = IF ev THEN now ELSE @]

\* Variant of congestion_loss that drops to bdp without the cwnd/2 floor.
ConnVars_congestion_loss_nofloor(self, now, srtt, bdp) ==
    LET lr == (self.loss_rate * 99) \div 100 + FP \div 100
        ev == now - self.last_loss > srtt * 2
    IN  [self EXCEPT !.slow_start = FALSE,
                     !.loss_rate = lr,
                     !.cwnd = IF ev THEN Min(@, bdp) ELSE @,
                     !.last_loss = IF ev THEN now ELSE @]

\* pub fn congestion_loss(&mut self); srtt and bdp come from self.inflight
ConnVars_congestion_loss(self, now, srtt, bdp) ==
    LET lr == (self.loss_rate * 99) \div 100 + FP \div 100
        ev == now - self.last_loss > srtt * 2
    IN  [self EXCEPT !.slow_start = FALSE,
                     !.loss_rate = lr,
                     !.cwnd = IF ev THEN Min(@, Max(@ \div 2, bdp)) ELSE @,
                     !.last_loss = IF ev THEN now ELSE @]

----
(***************************************************************************)
(* FrameDecoder (crate::fec, outside the sources at hand): one per run,    *)
(* built for (data_shards, parity_shards); decode(shard, index) yields the *)
(* original ordered batch when data_shards distinct shards are in.  What   *)
(* it yields for a shard that reaches a decoder which has already yielded  *)
(* its batch is not known: nothing (again = FALSE) or the batch once more  *)
(* (again = TRUE).  A shard body is <<run, index>>: the shard of that      *)
(* index of that run's batch.  Payload i of run r is <<r, i>>.             *)
(***************************************************************************)
None == [some |-> FALSE, val |-> <<>>]
Some(v) == [some |-> TRUE, val |-> v]

Batch(run, n) == [i \in 1..n |-> <<run, i - 1>>]

FrameDecoder_new(data_shards, parity_shards) ==
    [data_shards |-> data_shards, parity_shards |-> parity_shards,
     present |-> {}, done |-> FALSE]

FrameDecoder_decode(dec, bts, idx, again) ==
    IF idx >= dec.data_shards + dec.parity_shards
    THEN [self |-> dec, ret |-> None]
    ELSE LET pres == dec.present \cup {idx}
         IN  IF Cardinality(pres) >= dec.data_shards /\ (~dec.done \/ again)
             THEN [self |-> [dec EXCEPT !.present = pres, !.done = TRUE],
                   ret  |-> Some(Batch(bts[1], dec.data_shards))]
             ELSE [self |-> [dec EXCEPT !.present = pres], ret |-> None]

FrameDecoder_good_pkts(dec) ==
    IF dec.done THEN dec.data_shards
    ELSE Cardinality({i \in dec.present : i < dec.data_shards})

FrameDecoder_lost_pkts(dec) == dec.data_shards - FrameDecoder_good_pkts(dec)

(***************************************************************************)
(* RunDecoder (session.rs 219-271)                                         *)
(***************************************************************************)
RunWindow == 100

RunDecoder_default ==
    [top_run |-> 0, bottom_run |-> 0, decoders |-> <<>>,
     total_count |-> 0, correct_count |-> 0,
     total_data_shards |-> 0, total_parity_shards |-> 0]

\* Variant of the eviction step that adds the counts and keeps the decoder.
RunDecoder_evict_keep(self) ==
    LET b == self.bottom_run
    IN  IF b \in DOMAIN self.decoders
        THEN [self EXCEPT
                !.total_count = @ + FrameDecoder_good_pkts(self.decoders[b])
                                  + FrameDecoder_lost_pkts(self.decoders[b]),
                !.correct_count = @ + FrameDecoder_good_pkts(self.decoders[b]),
                !.bottom_run = @ + 1]
        ELSE [self EXCEPT !.bottom_run = @ + 1]

\* if let Some(dec) = self.decoders.remove(&self.bottom_run) { .. }; bottom += 1
RunDecoder_evict(self) ==
    LET b == self.bottom_run
    IN  IF b \in DOMAIN self.decoders
        THEN [self EXCEPT
                !.decoders = [r \in DOMAIN self.decoders \ {b} |-> self.decoders[r]],
                !.total_count = @ + FrameDecoder_good_pkts(self.decoders[b])
                                  + FrameDecoder_lost_pkts(self.decoders[b]),
                !.correct_count = @ + FrameDecoder_good_pkts(self.decoders[b]),
                !.bottom_run = @ + 1]
        ELSE [self EXCEPT !.bottom_run = @ + 1]

\* Variant of the window loop that tolerates one more run than the code does.
RECURSIVE RunDecoder_advance_wide(_)
RunDecoder_advance_wide(self) ==
    IF self.top_run - self.bottom_run > RunWindow + 1
    THEN RunDecoder_advance_wide(RunDecoder_evict(self))
    ELSE self

\* one pass of the while loop: its test, and its body if the test holds
RunDecoder_while(self) ==
    IF self.top_run - self.bottom_run > RunWindow THEN RunDecoder_evict(self) ELSE self

\* eight passes
RunDecoder_while8(self) ==
    RunDecoder_while(RunDecoder_while(RunDecoder_while(RunDecoder_while(
    RunDecoder_while(RunDecoder_while(RunDecoder_while(RunDecoder_while(self))))))))

\* while self.top_run - self.bottom_run > 100 { evict }, eight passes at a time
RECURSIVE RunDecoder_advance(_)
RunDecoder_advance(self) ==
    IF self.top_run - self.bottom_run > RunWindow
    THEN RunDecoder_advance(RunDecoder_while8(self))
    ELSE self

\* the accepted branch of input: window, entry().or_insert_with, counters, decode
RunDecoder_accept(self, run_no, run_idx, data_shards, parity_shards, bts, again) ==
    LET s1  == IF run_no > self.top_run
               THEN RunDecoder_advance([self EXCEPT !.top_run = run_no])
               ELSE self
        dec == IF run_no \in DOMAIN s1.decoders
               THEN s1.decoders[run_no]
               ELSE FrameDecoder_new(data_shards, parity_shards)
        r   == FrameDecoder_decode(dec, bts, run_idx, again)
        s2  == [s1 EXCEPT
                 !.decoders = [k \in DOMAIN s1.decoders \cup {run_no} |->
                                 IF k = run_no THEN r.self ELSE s1.decoders[k]],
                 !.total_data_shards = IF run_idx < data_shards THEN @ + 1 ELSE @,
                 !.total_parity_shards = IF run_idx < data_shards THEN @ ELSE @ + 1]
    IN  [self |-> s2, ret |-> r.ret]

\* Variant of input without the run_no >= bottom_run test.
RunDecoder_input_nofloor(self, run_no, run_idx, data_shards, parity_shards, bts, again) ==
    RunDecoder_accept(self, run_no, run_idx, data_shards, parity_shards, bts, again)

\* fn input(&mut self, run_no, run_idx, data_shards, parity_shards, bts)
RunDecoder_input(self, run_no, run_idx, data_shards, parity_shards, bts, again) ==
    IF run_no >= self.bottom_run
    THEN RunDecoder_accept(self, run_no, run_idx, data_shards, parity_shards, bts, again)
    ELSE [self |-> self, ret |-> None]

----
(***************************************************************************)
(* LossCalculator and loss_to_u8 (session.rs 308-354).  The counters are   *)
(* u64 values and the samples f64 values, both kept at their full width.   *)
(***************************************************************************)
LossSamplesMax == 256
LossStep == 30

\* A u64 is kept as three limbs, most significant first, of 10, 27 and 27
\* bits: <<a, b, c>> is a * 2^54 + b * 2^27 + c.
Limb == 134217728
U64Top == 1024

\* the u64 of a number below 2^31
U64Of(n) == <<0, n \div Limb, n % Limb>>
U64Max == <<U64Top - 1, Limb - 1, Limb - 1>>
U64Zero == <<0, 0, 0>>

\* a < b
U64Less(a, b) ==
    \/ a[1] < b[1]
    \/ a[1] = b[1] /\ a[2] < b[2]
    \/ a[1] = b[1] /\ a[2] = b[2] /\ a[3] < b[3]

\* a + n for n below 2^27: the sum modulo 2^64, and whether it left the u64
\* range (a panic where overflow checks are compiled in, a silent wrap where
\* they are not)
U64Add(a, n) ==
    LET s3 == a[3] + n
        s2 == a[2] + s3 \div Limb
        s1 == a[1] + s2 \div Limb
    IN  [val |-> <<s1 % U64Top, s2 % Limb, s3 % Limb>>, overflow |-> s1 >= U64Top]

\* a - b for a >= b
U64Sub(a, b) ==
    LET b3 == IF a[3] < b[3] THEN 1 ELSE 0
        b2 == IF a[2] - b3 < b[2] THEN 1 ELSE 0
    IN  <<a[1] - b[1] - b2, a[2] - b[2] - b3 + b2 * Limb, a[3] - b[3] + b3 * Limb>>

\* a.saturating_sub(b)
U64_saturating_sub(a, b) == IF U64Less(a, b) THEN U64Zero ELSE U64Sub(a, b)

\* An f64 that is not negative is NaN, zero, or a number with a mantissa M of
\* 53 bits, 2^52 <= M < 2^53, and a binade k: the number is M * 2^-(k + 52),
\* which lies in [2^-k, 2^-(k - 1)).  M is kept as the two limbs hi (26 bits)
\* and lo (27 bits), M = hi * 2^27 + lo.  Infinities, negative numbers and
\* subnormals do not arise from the counters.
F64Mantissa == 53
HalfLimb == 67108864
F64NaN == [cls |-> "nan", k |-> 0, hi |-> 0, lo |-> 0]
F64Zero == [cls |-> "zero", k |-> 0, hi |-> 0, lo |-> 0]
F64Num(k, m) == [cls |-> "num", k |-> k, hi |-> m[1], lo |-> m[2]]
F64One == F64Num(0, <<HalfLimb \div 2, 0>>)

\* two-limb numbers <<h, l>> = h * 2^27 + l
M2Less(x, y) == x[1] < y[1] \/ (x[1] = y[1] /\ x[2] < y[2])
M2Sub(x, y) ==
    LET b == IF x[2] < y[2] THEN 1 ELSE 0
    IN  <<x[1] - y[1] - b, x[2] - y[2] + b * Limb>>
M2Double(x, bit) ==
    LET l == 2 * x[2] + bit
    IN  <<2 * x[1] + l \div Limb, l % Limb>>
M2Succ(x) == IF x[2] = Limb - 1 THEN <<x[1] + 1, 0>> ELSE <<x[1], x[2] + 1>>

\* the f64 with mantissa m + 1 if up, m if not, in binade k
F64Round(k, m, up) ==
    LET m1 == IF up THEN M2Succ(m) ELSE m
    IN  IF m1[1] = HalfLimb THEN F64Num(k - 1, <<HalfLimb \div 2, 0>>)
        ELSE F64Num(k, m1)

\* a < b as partial_cmp orders two f64; a NaN is below nothing and nothing
\* is below it
F64Less(a, b) ==
    IF a.cls = "nan" \/ b.cls = "nan" \/ b.cls = "zero" THEN FALSE
    ELSE IF a.cls = "zero" THEN TRUE
    ELSE a.k > b.k \/ (a.k = b.k /\ M2Less(<<a.hi, a.lo>>, <<b.hi, b.lo>>))

\* a.max(b)
F64_max(a, b) == IF F64Less(a, b) THEN b ELSE a

\* a u64 shifted left until its bit 63 is set: the shifted limbs and the
\* number of shifts
RECURSIVE U64Normal(_, _)
U64Normal(a, s) ==
    IF a[1] >= U64Top \div 2 THEN [val |-> a, s |-> s]
    ELSE LET c3 == 2 * a[3]
             c2 == 2 * a[2] + c3 \div Limb
             c1 == 2 * a[1] + c2 \div Limb
         IN  U64Normal(<<c1, c2 % Limb, c3 % Limb>>, s + 1)

\* the f64 nearest to the normalised u64 n.val, ties to even: the top 53
\* bits are the mantissa and the low 11 bits decide the rounding
U64Nearest(n) ==
    LET hi  == n.val[1] * 65536 + n.val[2] \div 2048
        lo  == (n.val[2] % 2048) * 65536 + n.val[3] \div 2048
        low == n.val[3] % 2048
        up  == low > 1024 \/ (low = 1024 /\ lo % 2 = 1)
    IN  F64Round(n.s - 63, <<hi, lo>>, up)

\* a as f64: the nearest f64, ties to even (exact below 2^53)
U64_as_f64(a) == IF a = U64Zero THEN F64Zero ELSE U64Nearest(U64Normal(a, 0))

\* One step of the binary long division by the mantissa b: the remainder r
\* (below b) is doubled and gives the next quotient bit, which is appended
\* to q; n counts the bits of q.
F64DivBit(st, b) ==
    IF st.n = F64Mantissa THEN st
    ELSE LET r2  == M2Double(st.r, 0)
             bit == IF M2Less(r2, b) THEN 0 ELSE 1
         IN  [r |-> IF bit = 1 THEN M2Sub(r2, b) ELSE r2,
              q |-> M2Double(st.q, bit), n |-> st.n + 1]

F64DivBit8(st, b) ==
    F64DivBit(F64DivBit(F64DivBit(F64DivBit(F64DivBit(F64DivBit(F64DivBit(F64DivBit(
        st, b), b), b), b), b), b), b), b)

RECURSIVE F64DivBits(_, _)
F64DivBits(st, b) ==
    IF st.n = F64Mantissa THEN st ELSE F64DivBits(F64DivBit8(st, b), b)

\* the quotient st.q of 53 bits rounded by the remainder st.r, to nearest,
\* ties to even, in binade k
F64DivRound(st, mb, k) ==
    LET r2 == M2Double(st.r, 0)
        up == M2Less(mb, r2) \/ (r2 = mb /\ st.q[2] % 2 = 1)
    IN  F64Round(k, st.q, up)

\* a / b for f64 0 <= a <= b: the quotient rounded to the nearest f64, ties
\* to even; 0.0 / 0.0 is NaN
F64Div(a, b) ==
    IF b.cls = "zero" THEN F64NaN
    ELSE IF a.cls = "zero" THEN F64Zero
    ELSE LET ma == <<a.hi, a.lo>>
             mb == <<b.hi, b.lo>>
             ge == ~M2Less(ma, mb)
         IN  F64DivRound(
                 F64DivBits(IF ge THEN [r |-> M2Sub(ma, mb), q |-> <<0, 1>>, n |-> 1]
                            ELSE [r |-> ma, q |-> <<0, 0>>, n |-> 0], mb),
                 mb, IF ge THEN a.k - b.k ELSE a.k - b.k + 1)

\* a two-limb number shifted left until its bit 52 is set, in binade k
RECURSIVE F64Normal(_, _)
F64Normal(k, m) ==
    IF m[1] >= HalfLimb \div 2 THEN F64Num(k, m) ELSE F64Normal(k + 1, M2Double(m, 0))

\* 1.0 - q for an f64 q in [0, 1].  The difference is exact for q >= 1/2;
\* below that it is a multiple of 2^-53 in [1/2, 1], so the low k - 1 bits of
\* q are rounded away, to nearest, ties to even.
F64OneMinus(q) ==
    IF q.cls = "nan" THEN F64NaN
    ELSE IF q.cls = "zero" THEN F64One
    ELSE IF q.k = 0 THEN F64Zero
    ELSE IF q.k = 1 THEN F64Normal(1, M2Sub(<<HalfLimb, 0>>, <<q.hi, q.lo>>))
    ELSE IF q.k > F64Mantissa + 1 THEN F64One
    ELSE LET s     == q.k - 1
             t     == s - 27
             kept  == IF s < 27
                      THEN <<q.hi \div 2^s, (q.hi % 2^s) * 2^(27 - s) + q.lo \div 2^s>>
                      ELSE <<0, q.hi \div 2^t>>
             guard == IF s < 27 THEN (q.lo % 2^s) \div 2^(s - 1) = 1
                      ELSE IF t = 0 THEN q.lo \div HalfLimb = 1
                      ELSE (q.hi % 2^t) \div 2^(t - 1) = 1
             below == IF s < 27 THEN q.lo % 2^(s - 1) # 0
                      ELSE IF t = 0 THEN q.lo % HalfLimb # 0
                      ELSE q.hi % 2^(t - 1) # 0 \/ q.lo # 0
             down  == guard /\ (below \/ kept[2] % 2 = 1)
             r     == M2Sub(<<HalfLimb, 0>>, IF down THEN M2Succ(kept) ELSE kept)
         IN  IF r[1] = HalfLimb THEN F64One ELSE F64Num(1, r)

\* fn loss_to_u8(loss: f64) -> u8, for a loss in [0, 1] or NaN.  loss * 256.0
\* is exact; NaN > 254.0 is false and NaN as u8 is 0.
loss_to_u8(loss) ==
    IF loss.cls # "num" \/ loss.k > 8 THEN 0
    ELSE IF loss.k = 0 THEN 255
    ELSE LET whole == loss.hi \div 2^(loss.k + 17)
             frac  == loss.hi % 2^(loss.k + 17) # 0 \/ loss.lo # 0
         IN  IF whole > 254 \/ (whole = 254 /\ frac) THEN 255 ELSE whole

\* x put into the ascending sequence sorted, after the elements below it
SortBisect(sorted, x, st) ==
    IF st.lo = st.hi THEN st
    ELSE LET mid == (st.lo + st.hi) \div 2
         IN  IF F64Less(sorted[mid + 1], x) THEN [st EXCEPT !.lo = mid + 1]
             ELSE [st EXCEPT !.hi = mid]

SortBisect9(sorted, x, st) ==
    SortBisect(sorted, x, SortBisect(sorted, x, SortBisect(sorted, x,
    SortBisect(sorted, x, SortBisect(sorted, x, SortBisect(sorted, x,
    SortBisect(sorted, x, SortBisect(sorted, x, SortBisect(sorted, x, st)))))))))

SortInsert(sorted, x) ==
    LET k == SortBisect9(sorted, x, [lo |-> 0, hi |-> Len(sorted)]).lo
    IN  SubSeq(sorted, 1, k) \o <<x>> \o SubSeq(sorted, k + 1, Len(sorted))

\* the next element of xs put into sorted, which holds the ones before it
SortStep(sorted, xs) ==
    IF Len(sorted) = Len(xs) THEN sorted ELSE SortInsert(sorted, xs[Len(sorted) + 1])

SortStep8(sorted, xs) ==
    SortStep(SortStep(SortStep(SortStep(SortStep(SortStep(SortStep(SortStep(
        sorted, xs), xs), xs), xs), xs), xs), xs), xs)

RECURSIVE SortFrom(_, _)
SortFrom(sorted, xs) ==
    IF Len(sorted) = Len(xs) THEN sorted ELSE SortFrom(SortStep8(sorted, xs), xs)

\* lala.sort_unstable_by(|a, b| a.partial_cmp(b).unwrap()) for samples none
\* of which is NaN
Sorted(xs) == SortFrom(<<>>, xs)

\* partial_cmp is None for a NaN and the unwrap panics; sorting two or more
\* samples compares every one of them
SortPanics(xs) == Len(xs) >= 2 /\ \E i \in 1..Len(xs) : xs[i].cls = "nan"

LossCalculator_new ==
    [last_top_seqno |-> U64Zero, last_total_seqno |-> U64Zero, loss_samples |-> <<>>,
     median |-> F64Zero]

\* let loss_sample = 1.0 - delta_total / delta_top.max(delta_total)
LossSample(delta_top, delta_total) ==
    F64OneMinus(F64Div(delta_total, F64_max(delta_top, delta_total)))

\* What a call of update_params gives: the calculator it leaves, whether it
\* recorded a sample, and whether it panicked (self is then the calculator
\* as the panic found it).
LossReturn(self, recorded) == [self |-> self, recorded |-> recorded, panic |-> FALSE]
LossPanic(self, recorded) == [self |-> self, recorded |-> recorded, panic |-> TRUE]

\* self.loss_samples.push_back(loss_sample);
\* if self.loss_samples.len() > 256 { self.loss_samples.pop_front(); }
LossPush(loss_samples, loss_sample) ==
    IF Len(loss_samples) + 1 > LossSamplesMax THEN Tail(loss_samples) \o <<loss_sample>>
    ELSE Append(loss_samples, loss_sample)

\* the rest of update_params once the sample is in samples: the counters are
\* stored, and the median is the element len / 2 of the sorted samples
LossMedian(self, top_seqno, total_seqno, samples) ==
    LET moved == [self EXCEPT !.last_top_seqno = top_seqno,
                              !.last_total_seqno = total_seqno,
                              !.loss_samples = samples]
    IN  IF SortPanics(samples) THEN LossPanic(moved, TRUE)
        ELSE LossReturn([moved EXCEPT
                 !.median = Sorted(samples)[Len(samples) \div 2 + 1]], TRUE)

\* Variant of update_params that never discards a sample.
LossCalculator_update_params_keepall(self, top_seqno, total_seqno, checks) ==
    LET total_lim == U64Add(self.last_total_seqno, LossStep)
        top_lim   == U64Add(self.last_top_seqno, LossStep)
    IN  IF checks /\ total_lim.overflow THEN LossPanic(self, FALSE)
        ELSE IF ~U64Less(total_lim.val, total_seqno) THEN LossReturn(self, FALSE)
        ELSE IF checks /\ top_lim.overflow THEN LossPanic(self, FALSE)
        ELSE IF ~U64Less(top_lim.val, top_seqno) THEN LossReturn(self, FALSE)
        ELSE LossMedian(self, top_seqno, total_seqno,
                 Append(self.loss_samples,
                        LossSample(
                            U64_as_f64(U64_saturating_sub(top_seqno, self.last_top_seqno)),
                            U64_as_f64(U64_saturating_sub(total_seqno, self.last_total_seqno)))))

\* fn update_params(&mut self, top_seqno: u64, total_seqno: u64).  checks
\* tells whether the build has overflow checks: with them an addition that
\* leaves the u64 range panics, without them it wraps.  The right operand of
\* && is evaluated only if the left one is true.
LossCalculator_update_params(self, top_seqno, total_seqno, checks) ==
    LET total_lim == U64Add(self.last_total_seqno, LossStep)
        top_lim   == U64Add(self.last_top_seqno, LossStep)
    IN  IF checks /\ total_lim.overflow THEN LossPanic(self, FALSE)
        ELSE IF ~U64Less(total_lim.val, total_seqno) THEN LossReturn(self, FALSE)
        ELSE IF checks /\ top_lim.overflow THEN LossPanic(self, FALSE)
        ELSE IF ~U64Less(top_lim.val, top_seqno) THEN LossReturn(self, FALSE)
        ELSE LossMedian(self, top_seqno, total_seqno,
                 LossPush(self.loss_samples,
                          LossSample(
                              U64_as_f64(U64_saturating_sub(top_seqno, self.last_top_seqno)),
                              U64_as_f64(U64_saturating_sub(total_seqno, self.last_total_seqno)))))

----
(***************************************************************************)
(* Drivers                                                                 *)
(***************************************************************************)
MaxAdds == 5                          \* add calls per behaviour
SeqnoVals  == {0, 5, 6, 7, 9, 11, 1010, 1011, 1100}
StartVals  == {0, 7}

\* some frames of a peer that sends runs of 2 data + 1 parity shards; the
\* network may deliver any of them, in any order, any number of times.  The
\* last one is far enough ahead to move the replay window past the first two.
FrameNo(run, idx) == IF run = 0 THEN idx ELSE 450 + 650 * idx
Feedback(run) == IF run = 0 THEN <<0, 0>> ELSE <<100, 80>>
Frame(run, idx) ==
    [frame_no |-> FrameNo(run, idx), run_no |-> run, run_idx |-> idx,
     data_shards |-> 2, parity_shards |-> 1,
     high_recv_frame_no |-> Feedback(run)[1],
     total_recv_frames |-> Feedback(run)[2]]
FrameVals == {Frame(0, 0), Frame(0, 2), Frame(150, 0), Frame(150, 1)}
AllSeqnos == SeqnoVals \cup {f.frame_no : f \in FrameVals}

RpLastNone(f) == [called |-> FALSE, seqno |-> 0, ret |-> FALSE, pre |-> f]

ReplayInit(start) ==
    /\ rp_filter = ReplayFilter_new(start)
    /\ rp_last = RpLastNone(ReplayFilter_new(start))
    /\ rp_true = [x \in AllSeqnos |-> 0]
    /\ rp_calls = 0

\* one call rp_filter.add(x), with the bookkeeping of the history variables
ReplayAdd(x) ==
    LET r == ReplayFilter_add(rp_filter, x)
    IN  /\ rp_filter' = r.self
        /\ rp_last' = [called |-> TRUE, seqno |-> x, ret |-> r.ret, pre |-> rp_filter]
        /\ rp_true' = IF r.ret THEN [rp_true EXCEPT ![x] = @ + 1] ELSE rp_true
        /\ rp_calls' = rp_calls + 1

Add(x) == rp_calls < MaxAdds /\ ReplayAdd(x) /\ UNCHANGED <<cvVars, rdVars, sessVars>>

MaxCalls == 4                         \* congestion calls per behaviour
ElapsedVals == {50, 300}              \* ms between two calls (or since creation)
SrttVals   == {0, 100}
BdpVals    == {0, 40 * FP}
CwndStarts == {128 * FP, 200 * FP, 10000 * FP}

S4None == [stage |-> 0, t |-> 0]

\* history of the scenario "cwnd 200, bdp 40, srtt 100 ms: a loss that passes
\* the debounce, a loss 50 ms later, a loss 300 ms after that"
S4Step(s, pre, now, srtt, bdp) ==
    IF srtt = 100 /\ bdp = 40 * FP
    THEN IF s.stage = 1 /\ now = s.t + 50 THEN [stage |-> 2, t |-> now]
         ELSE IF s.stage = 2 /\ now = s.t + 300 THEN [stage |-> 3, t |-> now]
         ELSE IF pre.cwnd = 200 * FP /\ now - pre.last_loss > 2 * srtt
              THEN [stage |-> 1, t |-> now]
         ELSE S4None
    ELSE S4None

\* ConnVars::default() at time 0; cwnd is a pub field the owner may then set
ConnInit(c) ==
    /\ clock = 0
    /\ cv = [ConnVars_default(0) EXCEPT !.cwnd = c]
    /\ cv_last = [kind |-> "none", now |-> 0, srtt |-> 0, bdp |-> 0,
                  pre |-> [ConnVars_default(0) EXCEPT !.cwnd = c]]
    /\ cv_calls = 0
    /\ s4 = S4None

\* congestion_ack called dt ms after the previous call, Instant::now() = clock'
CongestionAck(dt, srtt) ==
    /\ cv_calls < MaxCalls
    /\ clock' = clock + dt
    /\ cv' = ConnVars_congestion_ack(cv, clock', srtt)
    /\ cv_last' = [kind |-> "ack", now |-> clock', srtt |-> srtt, bdp |-> 0, pre |-> cv]
    /\ cv_calls' = cv_calls + 1
    /\ s4' = S4None
    /\ UNCHANGED <<rpVars, rdVars, sessVars>>

\* congestion_loss called dt ms after the previous call
CongestionLoss(dt, srtt, bdp) ==
    /\ cv_calls < MaxCalls
    /\ clock' = clock + dt
    /\ cv' = ConnVars_congestion_loss(cv, clock', srtt, bdp)
    /\ cv_last' = [kind |-> "loss", now |-> clock', srtt |-> srtt, bdp |-> bdp, pre |-> cv]
    /\ cv_calls' = cv_calls + 1
    /\ s4' = S4Step(s4, cv, clock', srtt, bdp)
    /\ UNCHANGED <<rpVars, rdVars, sessVars>>

MaxLossCalls == 3                     \* update_params calls outside the long drive
LossDrive == 260                      \* length of the long drive

\* counter values a peer may report: small ones, and ones at the end of the
\* u64 range, where last + 30 leaves it
U64Last(n) == U64Sub(U64Max, U64Of(n))
TopVals   == {U64Of(0), U64Of(30), U64Of(31), U64Of(100),
              U64Last(30), U64Last(29), U64Last(0)}
TotalVals == {U64Of(0), U64Of(30), U64Of(31), U64Of(80),
              U64Last(30), U64Last(29), U64Last(0)}

\* the feed "(0,0), (100,80), (200,150), (300,220)"
S2Feed == << <<U64Of(0), U64Of(0)>>, <<U64Of(100), U64Of(80)>>,
             <<U64Of(200), U64Of(150)>>, <<U64Of(300), U64Of(220)>> >>

LcLastNone ==
    [called |-> FALSE, top_seqno |-> U64Zero, total_seqno |-> U64Zero,
     pre |-> LossCalculator_new, recorded |-> FALSE, panic |-> FALSE,
     s2 |-> 0, drive |-> 0]

\* one call loss_calc.update_params(top_seqno, total_seqno), with the
\* bookkeeping of the history variables; from says which driver makes the
\* call: "any", "feed" or "drive"
LossApply(r, top_seqno, total_seqno, from) ==
    /\ loss_calc' = r.self
    /\ lc_last' = [called |-> TRUE, top_seqno |-> top_seqno,
                   total_seqno |-> total_seqno, pre |-> loss_calc,
                   recorded |-> r.recorded, panic |-> r.panic,
                   s2 |-> IF from = "drive" THEN lc_last.s2
                          ELSE IF from = "feed" THEN lc_last.s2 + 1 ELSE -1,
                   drive |-> IF from = "drive" THEN lc_last.drive + 1 ELSE 0]
    /\ lc_hist' = IF r.recorded
                  THEN Append(lc_hist, r.self.loss_samples[Len(r.self.loss_samples)])
                  ELSE lc_hist
    /\ lc_calls' = lc_calls + 1
    /\ UNCHANGED <<overflow_checks, taskVars, handleVars, input_q, delivered,
                   measured_loss, high_recv_frame_no, total_recv_frames, recv_pc,
                   recv_out, mutex, statVars, txVars, recv_pre, rpVars, cvVars,
                   rdVars>>

LossUpdate(top_seqno, total_seqno, from) ==
    LossApply(LossCalculator_update_params(loss_calc, top_seqno, total_seqno,
                                           overflow_checks),
              top_seqno, total_seqno, from)

\* any call, on a calculator the long drive has not touched and no call has
\* panicked on
UpdateParams(top_seqno, total_seqno) ==
    /\ lc_calls < MaxLossCalls /\ lc_last.drive = 0 /\ ~lc_last.panic
    /\ LossUpdate(top_seqno, total_seqno, "any")

\* the next call of the feed S2Feed, on a calculator that has seen nothing
\* but the feed
UpdateFeed ==
    /\ lc_last.s2 = lc_calls /\ lc_calls < Len(S2Feed)
    /\ LossUpdate(S2Feed[lc_calls + 1][1], S2Feed[lc_calls + 1][2], "feed")

\* the long drive, right after the feed S2Feed: each
\* call reports 100 more frames sent and between 40 and 89 more received, so
\* that every call records a sample and neighbouring samples differ
DriveTotal(k) == 40 + ((7 * k) % 50)
UpdateDriven ==
    /\ lc_last.drive > 0 \/ lc_last.s2 = Len(S2Feed)
    /\ lc_last.drive < LossDrive
    /\ LossUpdate(U64Add(loss_calc.last_top_seqno, 100).val,
                  U64Add(loss_calc.last_total_seqno, DriveTotal(lc_last.drive + 1)).val,
                  "drive")

MaxRunInputs == 2                     \* input calls outside the ascending drive
S7Runs == 150                         \* length of the ascending drive
RunNoVals == {40, 260}
RunIdxVals == {0, 1, 2}

RunInit ==
    /\ decoder = RunDecoder_default
    /\ rd_last = [called |-> FALSE, run_no |-> 0, run_idx |-> 0, ret |-> None,
                  pre |-> RunDecoder_default]
    /\ rd_asc = 0
    /\ rd_calls = 0
    /\ rd_some = <<>>

\* one call decoder.input(..) on the shard <<run_no, run_idx>> of a run of
\* data_shards + parity_shards shards
RunDecoderInput(run_no, run_idx, data_shards, parity_shards, again) ==
    LET r == RunDecoder_input(decoder, run_no, run_idx, data_shards, parity_shards,
                              <<run_no, run_idx>>, again)
    IN  /\ decoder' = r.self
        /\ rd_last' = [called |-> TRUE, run_no |-> run_no, run_idx |-> run_idx,
                       ret |-> r.ret, pre |-> decoder]
        /\ rd_asc' = IF run_no = rd_asc THEN rd_asc + 1 ELSE -1

\* the next frame of the ascending drive: run_no 0, 1, 2, ...
InputAscending ==
    /\ rd_asc >= 0 /\ rd_asc < S7Runs
    /\ RunDecoderInput(rd_asc, 0, 2, 1, FALSE)
    /\ UNCHANGED <<rd_calls, rd_some, rpVars, cvVars, sessVars>>

\* any other frame
Input(run_no, run_idx) ==
    /\ rd_calls < MaxRunInputs
    /\ \E again \in BOOLEAN : RunDecoderInput(run_no, run_idx, 2, 1, again)
    /\ rd_calls' = rd_calls + 1
    /\ UNCHANGED <<rd_some, rpVars, cvVars, sessVars>>

----
(***************************************************************************)
(* Session handle and session task (session.rs 33-217).  The sub-loops of  *)
(* session_loop are one future, polled as a whole: a sub-loop that is      *)
(* polled runs until one of its awaits is not ready, and the other         *)
(* sub-loops take no step meanwhile.  The application, the peer, the       *)
(* packet substrate and the drop of the Session run on other threads and   *)
(* may act between any two steps.  Each action below is one step.  A poll  *)
(* that is running when the task handle is dropped is not interrupted: it  *)
(* runs every sub-loop on to its next suspension, and only then is the     *)
(* future dropped.                                                         *)
(***************************************************************************)
InputCap == 2        \* capacity of input_q; flume::bounded(1000) in the code
MaxFrames == 4       \* frames taken from recv_frame per behaviour
MaxStatReqs == 1     \* get_stats calls per behaviour
MaxClosures == 1     \* closures passed to on_drop per behaviour

TosendCap == 1000    \* flume::bounded(1000) of send_tosend
BatchMax == 32       \* to_send.len() >= 32
Backlog == 33        \* payloads the application queued before the task first ran (SpecBatch)
FullBacklog == 998   \* payloads the application queued before the task first ran (SpecQueue)
SendBacklog == 3     \* payloads the application queued before the task first ran (SpecSend)
MaxSends == 3        \* further send_bytes calls per behaviour
BatchSends == 2      \* further send_bytes calls per behaviour of SpecBatch
FrameSends == 1      \* further send_bytes calls per behaviour of SpecSend
QueueBatches == 1    \* batches the send loop starts per behaviour of SpecQueue
MaxBatches == 2      \* batches the send loop starts per behaviour
SendFrameCap == 2    \* capacity of cfg.send_frame (chosen by the caller of Session::new)
TaskBacklog == 2     \* payloads queued at the start of SpecTask
ParityVals == {0, 1} \* numbers of parity shards the encoder may add

Closures == 1..MaxClosures
StatReqs == 1..MaxStatReqs

ReplyNone == [st |-> "unsent", val |-> <<>>]

\* the fields of Session in the order of their declaration, which is the
\* order in which they are dropped
SessionFields == <<"send_tosend", "recv_input", "get_stats", "_dropper", "_task">>

\* the application holds the Session: none of its fields has been dropped
SessionHeld == fields = SessionFields

\* Session::recv_input, the receiving end of input_q, still exists
RecvInputHeld == \E i \in 1..Len(fields) : fields[i] = "recv_input"

\* Session::new: the channels are empty, the task is spawned, _dropper is empty
SessInit ==
    /\ task = "running" /\ poll = <<>> /\ dropped = FALSE /\ fields = SessionFields
    /\ dropper = <<>> /\ registered = {} /\ ran = [c \in Closures |-> 0]
    /\ input_q = <<>> /\ delivered = <<>>
    /\ measured_loss = 0 /\ high_recv_frame_no = 0 /\ total_recv_frames = 0
    /\ loss_calc = LossCalculator_new
    /\ mutex = "none" /\ recv_pc = "recv" /\ recv_out = <<>>
    /\ statreq = <<>> /\ stats_pc = "idle" /\ stats_cur = 0
    /\ reply = [i \in StatReqs |-> ReplyNone]

\* pub fn on_drop(&mut self, thing)
OnDrop(c) ==
    /\ SessionHeld /\ c = Cardinality(registered) + 1
    /\ dropper' = Append(dropper, c)
    /\ registered' = registered \cup {c}
    /\ UNCHANGED <<dropped, fields, ran, taskVars, input_q, delivered, atomicVars, recvVars,
                   mutex, statVars, rpVars, cvVars, rdVars, sendVars>>

\* free slots of input_q
Room == InputCap - Len(input_q)

\* recv_loop is in the middle of a poll: between two send_async calls of the
\* for loop of line 189
RecvRunning == recv_pc = "send"

\* send_loop is in the middle of a poll (and the model follows it further):
\* about to take the first payload of a batch that is already queued,
\* between two passes of the batching loop, or between two send_async calls
SendRunning ==
    \/ send_pc \in {"pass", "emit"}
    \/ send_pc = "first" /\ send_run_no < MaxBatches

\* lines 214-216, what a poll of session_loop that is under way has yet to
\* run, the sub-loop it is in first: `race` polls send_loop and recv_loop in
\* an order it draws, `or` polls stats_loop after them, each once.  Nothing
\* is left when no poll is under way.
PollRests ==
    {<<"send", "recv", "stats">>, <<"recv", "send", "stats">>,
     <<"send", "stats">>, <<"recv", "stats">>, <<"stats">>, <<>>}

\* The Session goes out of scope.  Session has no Drop impl: its fields are
\* dropped one after the other, and the session task runs on between two of
\* them.  Each step drops the next field: send_tosend and get_stats close
\* their channels for the sub-loop that receives from them, which then waits
\* for ever; recv_input makes every later send to input_q fail; dropping the
\* Vec _dropper frees the boxed closures without calling them; dropping _task
\* (a smol::Task) cancels the session task: a task that is not being polled
\* is never polled again ("cancelled"); a poll that is under way on the
\* executor's thread is not interrupted, the task is only marked ("closed")
\* and the poll runs what it has yet to run.  A sub-loop that is in the middle
\* of its run is the one the poll is in.  No borrow of the handle (a pending
\* get_stats) can be outstanding.
DropSession ==
    /\ fields # <<>>
    /\ \A i \in StatReqs : reply[i].st # "waiting"
    /\ fields' = Tail(fields)
    /\ dropper' = IF Head(fields) = "_dropper" THEN <<>> ELSE dropper
    /\ IF Head(fields) = "_task" /\ task = "running"
       THEN \E p \in PollRests :
                /\ SendRunning => (p # <<>> /\ Head(p) = "send")
                /\ RecvRunning => (p # <<>> /\ Head(p) = "recv")
                /\ poll' = p
                /\ task' = IF p = <<>> THEN "cancelled" ELSE "closed"
       ELSE /\ task' = IF Head(fields) = "_task" THEN "cancelled" ELSE task
            /\ poll' = poll
    /\ dropped' = (Tail(fields) = <<>>)
    /\ UNCHANGED <<registered, ran, input_q, delivered, atomicVars, recvVars,
                   mutex, statVars, rpVars, cvVars, rdVars, sendVars>>

\* the executor runs sub-loop l: the task is alive, or it is closed and l is
\* the sub-loop the poll under way is in
TaskPolls(l) ==
    \/ task = "running"
    \/ task = "closed" /\ poll # <<>> /\ Head(poll) = l

\* pub async fn recv_bytes(&self): completes when input_q holds a payload
RecvBytes ==
    /\ SessionHeld /\ input_q # <<>>
    /\ input_q' = Tail(input_q)
    /\ UNCHANGED <<taskVars, handleVars, delivered, atomicVars, recvVars, mutex,
                   statVars, rpVars, cvVars, rdVars, sendVars>>

\* pub async fn get_stats(&self), up to its second await: the request is on
\* the (unbounded) request channel and the caller waits for the reply
GetStats(i) ==
    /\ SessionHeld /\ reply[i].st = "unsent"
    /\ \A j \in StatReqs : j < i => reply[j].st # "unsent"
    /\ statreq' = Append(statreq, i)
    /\ reply' = [reply EXCEPT ![i].st = "waiting"]
    /\ UNCHANGED <<taskVars, handleVars, input_q, delivered, atomicVars, recvVars,
                   mutex, stats_pc, stats_cur, rpVars, cvVars, rdVars, sendVars>>

\* the caller drops the get_stats future while it waits: the receiving end of
\* its reply channel is gone
CancelGetStats(i) ==
    /\ SessionHeld /\ reply[i].st = "waiting"
    /\ reply' = [reply EXCEPT ![i].st = "cancelled"]
    /\ UNCHANGED <<taskVars, handleVars, input_q, delivered, atomicVars, recvVars,
                   mutex, statreq, stats_pc, stats_cur, rpVars, cvVars, rdVars, sendVars>>

RECURSIVE Reversed(_)
Reversed(xs) == IF xs = <<>> THEN <<>> ELSE Append(Reversed(Tail(xs)), Head(xs))

\* Variant of the delivery loop that takes the decoded payloads last to first.
RecvOutput_reversed(ret) ==
    IF ret.some /\ ret.val # <<>>
    THEN recv_out' = Reversed(ret.val) /\ recv_pc' = "send" /\ mutex' = "recv"
    ELSE recv_out' = <<>> /\ recv_pc' = "recv" /\ mutex' = "none"

\* lines 182-189 after input returned: `if let Some(output)` enters the for
\* loop over output.  The guard of decoder.lock() is a temporary of the
\* if-let scrutinee, so it lives until the end of the if-let, across every
\* send_async of the for loop.
RecvOutput(ret) ==
    IF ret.some /\ ret.val # <<>>
    THEN recv_out' = ret.val /\ recv_pc' = "send" /\ mutex' = "recv"
    ELSE recv_out' = <<>> /\ recv_pc' = "recv" /\ mutex' = "none"

\* recv_loop from recv_frame.recv_async() to the for loop of line 189.  A
\* panic of update_params ends the session task, also one that is closed.
RecvFrame(f) ==
    /\ TaskPolls("recv") /\ recv_pc = "recv" /\ ~SendRunning
    /\ rp_calls < MaxFrames
    /\ ReplayAdd(f.frame_no)
    /\ LET r == LossCalculator_update_params(loss_calc, U64Of(f.high_recv_frame_no),
                                             U64Of(f.total_recv_frames), overflow_checks)
       IN  IF ~ReplayFilter_add(rp_filter, f.frame_no).ret
           THEN \* replay filter dropping frame: continue
                UNCHANGED <<taskVars, atomicVars, recvVars, mutex, rdVars>>
           ELSE IF r.panic
           THEN /\ task' = "panicked" /\ poll' = <<>>
                /\ loss_calc' = r.self
                /\ UNCHANGED <<atomicVars, recv_pc, recv_out, mutex, rdVars>>
           ELSE /\ loss_calc' = r.self
                /\ measured_loss' = loss_to_u8(r.self.median)
                /\ high_recv_frame_no' = Max(high_recv_frame_no, f.frame_no)
                /\ total_recv_frames' = total_recv_frames + 1
                /\ UNCHANGED taskVars
                /\ IF mutex # "none"
                   THEN \* decoder.lock().await suspends; the only holder across
                        \* a suspension of recv_loop is a stuck stats_loop,
                        \* which never unlocks
                        /\ recv_pc' = "lock"
                        /\ UNCHANGED <<recv_out, mutex, rdVars>>
                   ELSE \E again \in BOOLEAN :
                        /\ RunDecoderInput(f.run_no, f.run_idx, f.data_shards,
                                           f.parity_shards, again)
                        /\ UNCHANGED rd_calls
                        /\ rd_some' = IF rd_last'.ret.some
                                      THEN Append(rd_some, f.run_no) ELSE rd_some
                        /\ RecvOutput(rd_last'.ret)
    /\ recv_pre' = [measured_loss |-> measured_loss,
                    high_recv_frame_no |-> high_recv_frame_no,
                    total_recv_frames |-> total_recv_frames, decoder |-> decoder]
    /\ UNCHANGED <<handleVars, input_q, delivered, statVars, cvVars, txVars, lcVars>>

\* line 190, one `let _ = send_input.send_async(item).await` of the for loop,
\* polled for the first time or again after it was suspended: it fails at
\* once if recv_input has been dropped, and the item is discarded with the
\* error; it puts the item on input_q if there is room; else it suspends
\* (recv_pc = "deliver") with the guard of the decoder mutex alive
RecvSendOutput ==
    /\ TaskPolls("recv") /\ ~SendRunning
    /\ recv_pc = "send" \/ (recv_pc = "deliver" /\ (Room > 0 \/ ~RecvInputHeld))
    /\ IF RecvInputHeld /\ Room = 0
       THEN /\ recv_pc' = "deliver"
            /\ UNCHANGED <<input_q, delivered, recv_out, mutex>>
       ELSE /\ input_q' = IF RecvInputHeld THEN Append(input_q, Head(recv_out))
                          ELSE input_q
            /\ delivered' = IF RecvInputHeld THEN Append(delivered, Head(recv_out))
                            ELSE delivered
            /\ recv_out' = Tail(recv_out)
            /\ recv_pc' = IF Tail(recv_out) = <<>> THEN "recv" ELSE "send"
            /\ mutex' = IF Tail(recv_out) = <<>> THEN "none" ELSE "recv"
    /\ UNCHANGED <<taskVars, handleVars, atomicVars, loss_calc, statVars,
                   rpVars, cvVars, rdVars, sendVars>>

\* lines 200-211 with the decoder locked: build the response (the operands of
\* its ratios are kept) and send it; if the caller is gone send_async fails
\* and infal never returns, with the guard still alive
StatsRespond(i) ==
    IF reply[i].st = "waiting"
    THEN /\ reply' = [reply EXCEPT ![i] =
                [st |-> "answered",
                 val |-> <<high_recv_frame_no, total_recv_frames,
                           decoder.correct_count, decoder.total_count,
                           decoder.total_parity_shards, decoder.total_data_shards>>]]
         /\ stats_pc' = "idle"
         /\ mutex' = "none"
    ELSE /\ stats_pc' = "stuck"
         /\ mutex' = "stats"
         /\ UNCHANGED reply

\* stats_loop from recv_statreq.recv_async() to its next suspension
StatsTake ==
    /\ TaskPolls("stats") /\ ~SendRunning /\ ~RecvRunning
    /\ stats_pc = "idle" /\ statreq # <<>>
    /\ statreq' = Tail(statreq)
    /\ stats_cur' = Head(statreq)
    /\ IF mutex # "none"
       THEN stats_pc' = "lock" /\ UNCHANGED <<mutex, reply>>
       ELSE StatsRespond(Head(statreq))
    /\ UNCHANGED <<taskVars, handleVars, input_q, delivered, atomicVars, recvVars,
                   rpVars, cvVars, rdVars, sendVars>>

\* stats_loop resumes once decoder.lock() is granted
StatsLocked ==
    /\ TaskPolls("stats") /\ ~SendRunning /\ ~RecvRunning
    /\ stats_pc = "lock" /\ mutex = "none"
    /\ StatsRespond(stats_cur)
    /\ UNCHANGED <<taskVars, handleVars, input_q, delivered, atomicVars, recvVars,
                   statreq, stats_cur, rpVars, cvVars, rdVars, sendVars>>

\* the next await of sub-loop l is not ready, so that a poll of l returns
\* Pending: send_loop waits for a payload (line 117, or line 125 with the
\* timer still to fire) or for room on cfg.send_frame (line 146); recv_loop
\* waits for a frame (line 170), for the decoder mutex (line 182) or for
\* room on input_q while recv_input exists (line 190); stats_loop waits for a
\* request (line 198), for the decoder mutex (line 199) or for ever in infal
\* (line 211)
SubLoopPending(l) ==
    CASE l = "send" ->
            \/ send_pc \in {"wait", "batch"} /\ tosend_q = <<>>
            \/ send_pc = "blocked" /\ send_frame_open /\ Len(send_frame) >= SendFrameCap
      [] l = "recv" ->
            \/ recv_pc = "recv"
            \/ recv_pc = "lock" /\ mutex # "none"
            \/ recv_pc = "deliver" /\ RecvInputHeld /\ Room = 0
      [] l = "stats" ->
            \/ stats_pc = "idle" /\ statreq = <<>>
            \/ stats_pc = "lock" /\ mutex # "none"
            \/ stats_pc = "stuck"

\* lines 214-216 in a task that is closed: the sub-loop the poll is in
\* returns Pending and the poll goes on to the next one; after the last one
\* the poll returns and the executor drops the future of the closed task
PollPending ==
    /\ task = "closed" /\ poll # <<>>
    /\ SubLoopPending(Head(poll))
    /\ poll' = Tail(poll)
    /\ task' = IF Tail(poll) = <<>> THEN "cancelled" ELSE task
    /\ UNCHANGED <<handleVars, input_q, delivered, atomicVars, recvVars, mutex,
                   statVars, rpVars, cvVars, rdVars, sendVars>>

----
(***************************************************************************)
(* Send side: Session::send_bytes and send_loop (session.rs 62-68,         *)
(* 102-163).  A payload is a positive integer.  Each action of the send    *)
(* loop is one step of it: one recv_async that yields a payload, one       *)
(* firing of the timer, or one poll of a send_async.                       *)
(***************************************************************************)
\* FrameEncoder::encode (crate::fec, outside the sources at hand): the shards
\* of a batch are the payloads themselves followed by parity shards; how many
\* parity shards is the encoder's choice.  Parity shard j is written -j.
FrameEncoder_encode(loss, pkts, parity) ==
    [i \in 1..(Len(pkts) + parity) |-> IF i <= Len(pkts) THEN pkts[i] ELSE Len(pkts) - i]

SbLastNone == [called |-> FALSE, payload |-> 0, ok |-> FALSE, pre |-> <<>>, post |-> <<>>]
EmitLastNone ==
    [called |-> FALSE, frame |-> <<>>, waited |-> FALSE, high_recv_frame_no |-> 0,
     total_recv_frames |-> 0, recv_pc |-> "recv", stats_pc |-> "idle",
     mutex |-> "none"]
RecvPreNone ==
    [measured_loss |-> 0, high_recv_frame_no |-> 0, total_recv_frames |-> 0,
     decoder |-> RunDecoder_default]

\* Session::new, and then b send_bytes calls made before the session task is
\* first polled: the payloads 1..b wait on tosend_q; open tells whether the
\* substrate still holds the receiving end of cfg.send_frame by then.  The
\* build of the program has overflow checks or has none.
SendInit(b, open) ==
    /\ tosend_q = [i \in 1..b |-> i]
    /\ accepted = [i \in 1..b |-> i]
    /\ sb_last = SbLastNone /\ sb_calls = 0
    /\ send_pc = "wait" /\ to_send = <<>> /\ encoded = <<>> /\ emit_idx = 0
    /\ pending = <<>>
    /\ send_frame_no = 0 /\ send_run_no = 0
    /\ send_frame = <<>> /\ send_frame_open = open
    /\ emitted = <<>> /\ batches = <<>> /\ emit_last = EmitLastNone
    /\ recv_pre = RecvPreNone
    /\ lc_last = LcLastNone /\ lc_calls = 0 /\ lc_hist = <<>>
    /\ overflow_checks \in BOOLEAN

\* Variant of try_send that lets the queue grow one past its capacity.
Sender_try_send_over(q, x) ==
    IF Len(q) > TosendCap
    THEN [q |-> q, ok |-> FALSE]
    ELSE [q |-> Append(q, x), ok |-> TRUE]

\* self.send_tosend.try_send(to_send): Err(Full) when the queue holds its capacity
Sender_try_send(q, x) ==
    IF Len(q) >= TosendCap
    THEN [q |-> q, ok |-> FALSE]
    ELSE [q |-> Append(q, x), ok |-> TRUE]

\* pub async fn send_bytes(&self, to_send): the error of try_send is logged only
SendBytes ==
    /\ ~dropped /\ SessionHeld /\ sb_calls < MaxSends
    /\ LET x == TosendCap + sb_calls + 1
           r == Sender_try_send(tosend_q, x)
       IN  /\ tosend_q' = r.q
           /\ accepted' = IF r.ok THEN Append(accepted, x) ELSE accepted
           /\ sb_last' = [called |-> TRUE, payload |-> x, ok |-> r.ok, pre |-> tosend_q,
                       post |-> r.q]
    /\ sb_calls' = sb_calls + 1
    /\ UNCHANGED <<send_pc, to_send, encoded, emit_idx, pending, send_frame_no,
                   send_run_no, send_frame, send_frame_open, emitted, batches,
                   emit_last, recv_pre, lcVars>>
    /\ UNCHANGED <<taskVars, handleVars, input_q, delivered, atomicVars, recvVars, mutex,
                   statVars, rpVars, cvVars, rdVars>>

\* what the send loop leaves alone
SendLoopFrame ==
    UNCHANGED <<accepted, sb_last, sb_calls, recv_pre, lcVars, taskVars, handleVars, input_q,
                delivered, atomicVars, recvVars, mutex, statVars, rpVars, cvVars, rdVars>>

\* the executor runs send_loop and recv_loop is not in the middle of a poll,
\* so that send_loop can be polled
SendLoopPolled == TaskPolls("send") /\ ~RecvRunning

\* lines 114-118: recv_async yields the first payload of a batch and the
\* latency timer is armed.  The loop goes straight on to the first pass of
\* lines 119-131 ("pass") if another payload is queued; if none is, that pass
\* suspends ("batch").
SendLoopFirst ==
    /\ SendLoopPolled /\ send_pc \in {"wait", "first"} /\ tosend_q # <<>>
    /\ send_run_no < MaxBatches
    /\ to_send' = <<Head(tosend_q)>>
    /\ tosend_q' = Tail(tosend_q)
    /\ send_pc' = IF Tail(tosend_q) # <<>> THEN "pass" ELSE "batch"
    /\ UNCHANGED <<encoded, emit_idx, pending, send_frame_no, send_run_no, send_frame,
                   send_frame_open, emitted, batches, emit_last>>
    /\ SendLoopFrame

\* lines 134-135: the batch is closed and encoded
SendEncode(pkts, parity) ==
    /\ encoded' = FrameEncoder_encode(measured_loss, pkts, parity)
    /\ batches' = Append(batches, pkts)
    /\ emit_idx' = 0
    /\ send_pc' = "emit"

\* Variant of the batch test that closes a batch only above 32 payloads.
SendLoopMore_over ==
    /\ SendLoopPolled /\ send_pc \in {"batch", "pass"} /\ tosend_q # <<>>
    /\ to_send' = Append(to_send, Head(tosend_q))
    /\ tosend_q' = Tail(tosend_q)
    /\ IF Len(to_send') > BatchMax
       THEN \E parity \in ParityVals : SendEncode(to_send', parity)
       ELSE /\ send_pc' = IF Tail(tosend_q) # <<>> THEN "pass" ELSE "batch"
            /\ UNCHANGED <<encoded, batches, emit_idx>>
    /\ UNCHANGED <<pending, send_frame_no, send_run_no, send_frame, send_frame_open,
                   emitted, emit_last>>
    /\ SendLoopFrame

\* lines 119-131, one pass in which the timer has not fired: recv_async
\* yields a payload, which is pushed; the batch is closed if it now holds 32
\* (line 128), else the loop goes on to the next pass, which suspends if the
\* queue is empty
SendLoopMore ==
    /\ SendLoopPolled /\ send_pc \in {"batch", "pass"} /\ tosend_q # <<>>
    /\ to_send' = Append(to_send, Head(tosend_q))
    /\ tosend_q' = Tail(tosend_q)
    /\ IF Len(to_send') >= BatchMax
       THEN \E parity \in ParityVals : SendEncode(to_send', parity)
       ELSE /\ send_pc' = IF Tail(tosend_q) # <<>> THEN "pass" ELSE "batch"
            /\ UNCHANGED <<encoded, batches, emit_idx>>
    /\ UNCHANGED <<pending, send_frame_no, send_run_no, send_frame, send_frame_open,
                   emitted, emit_last>>
    /\ SendLoopFrame

\* lines 119-131, one pass in which the timer has fired: `or` polls it first,
\* so it wins over a payload that is ready, which stays on the queue (the
\* recv_async future is dropped without having taken it)
SendLoopTimeout ==
    /\ SendLoopPolled /\ send_pc \in {"batch", "pass"}
    /\ \E parity \in ParityVals : SendEncode(to_send, parity)
    /\ UNCHANGED <<tosend_q, to_send, pending, send_frame_no, send_run_no, send_frame,
                   send_frame_open, emitted, emit_last>>
    /\ SendLoopFrame

\* Variant of the frame that carries the counters as they were before the
\* last frame the receive loop took.
DataFrame_stale(idx, fno) ==
    [frame_no |-> fno, run_no |-> send_run_no, run_idx |-> idx % 256,
     data_shards |-> Len(to_send) % 256,
     parity_shards |-> (Len(encoded) - Len(to_send)) % 256,
     high_recv_frame_no |-> recv_pre.high_recv_frame_no,
     total_recv_frames |-> recv_pre.total_recv_frames,
     body |-> encoded[idx + 1]]

\* Variant of the frame that numbers the shards of a run from 1.
DataFrame_from1(idx, fno) ==
    [frame_no |-> fno, run_no |-> send_run_no, run_idx |-> (idx + 1) % 256,
     data_shards |-> Len(to_send) % 256,
     parity_shards |-> (Len(encoded) - Len(to_send)) % 256,
     high_recv_frame_no |-> high_recv_frame_no,
     total_recv_frames |-> total_recv_frames,
     body |-> encoded[idx + 1]]

\* lines 146-155: the frame of shard idx, numbered fno, built from the
\* counters as they are now
DataFrame(idx, fno) ==
    [frame_no |-> fno, run_no |-> send_run_no, run_idx |-> idx % 256,
     data_shards |-> Len(to_send) % 256,
     parity_shards |-> (Len(encoded) - Len(to_send)) % 256,
     high_recv_frame_no |-> high_recv_frame_no,
     total_recv_frames |-> total_recv_frames,
     body |-> encoded[idx + 1]]

\* cfg.send_frame.send_async(frame) completes: the frame is put on the
\* channel, or, if the receiving end is gone, the call returns an error,
\* which `drop` discards with the frame
SendFramePut(frame, waited) ==
    IF send_frame_open
    THEN /\ send_frame' = Append(send_frame, frame)
         /\ emitted' = Append(emitted, frame)
         /\ emit_last' = [called |-> TRUE, frame |-> frame, waited |-> waited,
                          high_recv_frame_no |-> high_recv_frame_no,
                          total_recv_frames |-> total_recv_frames,
                          recv_pc |-> recv_pc, stats_pc |-> stats_pc,
                          mutex |-> mutex]
    ELSE UNCHANGED <<send_frame, emitted, emit_last>>

\* lines 159-161 and 114 after a send_async has returned: frame_no += 1, and
\* the next shard; after the last shard run_no += 1 and the loop goes round
\* to line 114 (to_send.clear(), encoded having been dropped at the end of
\* the body) and line 117, which yields at once if a payload is queued
SendLoopAdvance ==
    /\ send_frame_no' = send_frame_no + 1
    /\ pending' = <<>>
    /\ IF emit_idx + 1 >= Len(encoded)
       THEN /\ send_run_no' = send_run_no + 1
            /\ send_pc' = IF tosend_q # <<>> THEN "first" ELSE "wait"
            /\ to_send' = <<>>
            /\ encoded' = <<>>
            /\ emit_idx' = 0
       ELSE /\ send_pc' = "emit"
            /\ emit_idx' = emit_idx + 1
            /\ UNCHANGED <<send_run_no, to_send, encoded>>

\* Variant of the emission that only proceeds while the decoder mutex is free.
SendLoopEmit_locked ==
    /\ SendLoopPolled /\ send_pc = "emit" /\ mutex = "none"
    /\ IF send_frame_open /\ Len(send_frame) >= SendFrameCap
       THEN /\ pending' = <<DataFrame(emit_idx, send_frame_no)>>
            /\ send_pc' = "blocked"
            /\ UNCHANGED <<send_frame, emitted, emit_last, send_frame_no, send_run_no,
                           to_send, encoded, emit_idx>>
       ELSE /\ SendFramePut(DataFrame(emit_idx, send_frame_no), FALSE)
            /\ SendLoopAdvance
    /\ UNCHANGED <<tosend_q, batches, send_frame_open>>
    /\ SendLoopFrame

\* lines 144-157, one shard: the frame is built and send_async is polled.
\* It completes at once if the channel has room or is closed; if the channel
\* is full it suspends, holding the frame.
SendLoopEmit ==
    /\ SendLoopPolled /\ send_pc = "emit"
    /\ IF send_frame_open /\ Len(send_frame) >= SendFrameCap
       THEN /\ pending' = <<DataFrame(emit_idx, send_frame_no)>>
            /\ send_pc' = "blocked"
            /\ UNCHANGED <<send_frame, emitted, emit_last, send_frame_no, send_run_no,
                           to_send, encoded, emit_idx>>
       ELSE /\ SendFramePut(DataFrame(emit_idx, send_frame_no), FALSE)
            /\ SendLoopAdvance
    /\ UNCHANGED <<tosend_q, batches, send_frame_open>>
    /\ SendLoopFrame

\* the suspended send_async is polled again once the channel has room or is
\* closed, and completes with the frame it holds
SendLoopResume ==
    /\ SendLoopPolled /\ send_pc = "blocked"
    /\ ~send_frame_open \/ Len(send_frame) < SendFrameCap
    /\ SendFramePut(pending[1], TRUE)
    /\ SendLoopAdvance
    /\ UNCHANGED <<tosend_q, batches, send_frame_open>>
    /\ SendLoopFrame

\* the packet substrate takes the next frame off cfg.send_frame
SendFrameRecv ==
    /\ send_frame_open /\ send_frame # <<>>
    /\ send_frame' = Tail(send_frame)
    /\ UNCHANGED <<tosend_q, to_send, encoded, emit_idx, pending, send_pc, send_frame_no,
                   send_run_no, send_frame_open, emitted, batches, emit_last>>
    /\ SendLoopFrame

\* the packet substrate drops its end of cfg.send_frame
SendFrameClose ==
    /\ send_frame_open
    /\ send_frame_open' = FALSE
    /\ send_frame' = <<>>
    /\ UNCHANGED <<tosend_q, to_send, encoded, emit_idx, pending, send_pc, send_frame_no,
                   send_run_no, emitted, batches, emit_last>>
    /\ SendLoopFrame

InitReplay ==
    (\E start \in StartVals : ReplayInit(start)) /\ ConnInit(128 * FP) /\ RunInit
    /\ SessInit /\ SendInit(0, TRUE)
NextReplay == \E x \in SeqnoVals : Add(x)
SpecReplay == InitReplay /\ [][NextReplay]_vars

InitConn ==
    (\E c \in CwndStarts : ConnInit(c)) /\ ReplayInit(0) /\ RunInit /\ SessInit
    /\ SendInit(0, TRUE)
NextConn ==
    \/ \E dt \in ElapsedVals, srtt \in SrttVals : CongestionAck(dt, srtt)
    \/ \E dt \in ElapsedVals, srtt \in SrttVals, bdp \in BdpVals :
            CongestionLoss(dt, srtt, bdp)
SpecConn == InitConn /\ [][NextConn]_vars

InitRun == RunInit /\ ReplayInit(0) /\ ConnInit(128 * FP) /\ SessInit /\ SendInit(0, TRUE)
NextRun ==
    \/ InputAscending
    \/ \E run_no \in RunNoVals, run_idx \in RunIdxVals : Input(run_no, run_idx)
SpecRun == InitRun /\ [][NextRun]_vars

\* the Session handle, the receive loop and the stats loop
Init == SessInit /\ ReplayInit(0) /\ RunInit /\ ConnInit(128 * FP) /\ SendInit(0, TRUE)
Next ==
    \/ \E c \in Closures : OnDrop(c)
    \/ DropSession
    \/ RecvBytes
    \/ \E i \in StatReqs : GetStats(i)
    \/ \E i \in StatReqs : CancelGetStats(i)
    \/ \E f \in FrameVals : RecvFrame(f)
    \/ RecvSendOutput
    \/ StatsTake
    \/ StatsLocked
    \/ PollPending
Spec == Init /\ [][Next]_vars

\* the send loop, the application and the packet substrate: every send_async
\* of the loop against a substrate that takes frames or drops its end at any
\* point
InitSend ==
    SendInit(SendBacklog, TRUE) /\ SessInit /\ ReplayInit(0) /\ RunInit /\ ConnInit(128 * FP)
NextSend ==
    \/ sb_calls < FrameSends /\ SendBytes
    \/ SendLoopFirst
    \/ SendLoopMore
    \/ SendLoopTimeout
    \/ SendLoopEmit
    \/ SendLoopResume
    \/ SendFrameRecv
    \/ SendFrameClose
SpecSend == InitSend /\ [][NextSend]_vars

\* the send loop and an application that goes on sending, on a backlog that
\* fills more than one batch: every pass of the batching loop against
\* send_bytes calls and the timer at any point.  The substrate has dropped
\* its end of cfg.send_frame, so no send_async of the loop has to wait.
BacklogVals == {0, Backlog}
InitBatch ==
    (\E b \in BacklogVals : SendInit(b, FALSE)) /\ SessInit /\ ReplayInit(0) /\ RunInit
    /\ ConnInit(128 * FP)
NextBatch ==
    \/ sb_calls < BatchSends /\ SendBytes
    \/ SendLoopFirst
    \/ SendLoopMore
    \/ SendLoopTimeout
    \/ SendLoopEmit
SpecBatch == InitBatch /\ [][NextBatch]_vars

\* the application and the send loop on a queue that is nearly full; the
\* substrate has dropped its end of cfg.send_frame here too
InitQueue ==
    SendInit(FullBacklog, FALSE) /\ SessInit /\ ReplayInit(0) /\ RunInit
    /\ ConnInit(128 * FP)
NextQueue ==
    \/ SendBytes
    \/ send_run_no < QueueBatches /\ SendLoopFirst
    \/ SendLoopMore
    \/ SendLoopTimeout
    \/ SendLoopEmit
SpecQueue == InitQueue /\ [][NextQueue]_vars

NextLoss ==
    \/ \E top_seqno \in TopVals, total_seqno \in TotalVals :
            UpdateParams(top_seqno, total_seqno)
    \/ UpdateFeed
    \/ UpdateDriven
SpecLoss == Init /\ [][NextLoss]_vars

\* the frames that may be the k-th to arrive from the peer: run 0 and run 150
\* of FrameVals in order, or the far frame of run 150 first, which puts the
\* frames of run 0 below the replay floor
TaskFrames(k) ==
    CASE k = 1 -> {Frame(0, 0), Frame(150, 1)}
      [] k = 2 -> {Frame(0, 2), Frame(0, 0)}
      [] k = 3 -> {Frame(150, 0)}
      [] k = 4 -> {Frame(150, 1), Frame(0, 2)}
      [] OTHER -> {}

\* the session task with its three sub-loops, never dropped, started with
\* TaskBacklog payloads already queued by an application that then neither
\* sends nor calls recv_bytes
InitTask ==
    SendInit(TaskBacklog, TRUE) /\ SessInit /\ ReplayInit(0) /\ RunInit /\ ConnInit(128 * FP)
NextTask ==
    \/ SendLoopFirst
    \/ SendLoopMore
    \/ SendLoopTimeout
    \/ SendLoopEmit
    \/ SendLoopResume
    \/ SendFrameRecv
    \/ SendFrameClose
    \/ \E f \in TaskFrames(rp_calls + 1) : RecvFrame(f)
    \/ RecvSendOutput
    \/ \E i \in StatReqs : GetStats(i)
    \/ \E i \in StatReqs : CancelGetStats(i)
    \/ StatsTake
\* a poll of the session task runs each sub-loop that can go on until it
\* suspends, and the executor polls the task whenever a sub-loop can go on;
\* the substrate keeps taking frames off cfg.send_frame
SpecTask ==
    /\ InitTask /\ [][NextTask]_vars
    /\ WF_vars(SendLoopEmit) /\ WF_vars(SendLoopResume) /\ WF_vars(RecvSendOutput)
    /\ WF_vars(SendFrameRecv)

----
(***************************************************************************)
(* Properties                                                              *)
(***************************************************************************)

\* C1: on one filter, add returns true at most once per id.
C1_AddTrueAtMostOnce == \A x \in SeqnoVals : rp_true[x] <= 1

\* C3: after every congestion_ack / congestion_loss call, 16 <= cwnd <= 10000.
C3_CwndBounds ==
    cv_last.kind # "none" => (16 * FP <= cv.cwnd /\ cv.cwnd <= 10000 * FP)

\* C6: in every reachable ReplayFilter state bottom <= top, top - bottom <= 1000
\* and every id of seen_seqno lies in [bottom, top].
C6_ReplayWindow ==
    /\ rp_filter.bottom_seqno <= rp_filter.top_seqno
    /\ rp_filter.top_seqno - rp_filter.bottom_seqno <= 1000
    /\ \A id \in rp_filter.seen_seqno :
          rp_filter.bottom_seqno <= id /\ id <= rp_filter.top_seqno

\* C6 witness: an admitted id moved the floor up by more than one.
C6_Witness ==
    /\ rp_last.called /\ rp_last.ret
    /\ rp_filter.bottom_seqno > rp_last.pre.bottom_seqno + 1
    /\ rp_filter.top_seqno - rp_filter.bottom_seqno = 1000

\* C9: a congestion_loss call made no more than 2*srtt after last_loss leaves
\* cwnd and last_loss unchanged and still folds the event into loss_rate.
C9_LossDebounce ==
    (cv_last.kind = "loss" /\ cv_last.now - cv_last.pre.last_loss <= 2 * cv_last.srtt)
    => /\ cv.cwnd = cv_last.pre.cwnd
       /\ cv.last_loss = cv_last.pre.last_loss
       /\ cv.loss_rate = (cv_last.pre.loss_rate * 99) \div 100 + FP \div 100
       /\ cv.loss_rate > cv_last.pre.loss_rate

\* C9 witness: a loss call passed the debounce and stamped last_loss, and a
\* further loss call with bdp below cwnd came more than srtt but no more than
\* 2*srtt later.
C9_Witness ==
    /\ cv_last.kind = "loss"
    /\ cv_last.pre.last_loss > 0
    /\ cv_last.now - cv_last.pre.last_loss > cv_last.srtt
    /\ cv_last.now - cv_last.pre.last_loss <= 2 * cv_last.srtt
    /\ cv_last.bdp < cv_last.pre.cwnd \div 2

\* C10 as stated: with cwnd = 200, bdp = 40, srtt = 100 ms, any
\* congestion_loss call yields cwnd = 100.
C10_Original ==
    (/\ cv_last.kind = "loss" /\ cv_last.pre.cwnd = 200 * FP
     /\ cv_last.bdp = 40 * FP /\ cv_last.srtt = 100)
    => cv.cwnd = 100 * FP

\* C10 amended: a congestion_loss call that passes the debounce sets cwnd to
\* min(cwnd, max(cwnd/2, bdp)), never raising it nor taking it below half;
\* with cwnd = 200, bdp = 40, srtt = 100 ms a call more than 200 ms after
\* last_loss yields 100, a call 50 ms later leaves 100, and a call 300 ms
\* after that yields 50.
C10_LossReduction ==
    /\ (cv_last.kind = "loss" /\ cv_last.now - cv_last.pre.last_loss > 2 * cv_last.srtt)
       => /\ cv.cwnd = Min(cv_last.pre.cwnd, Max(cv_last.pre.cwnd \div 2, cv_last.bdp))
          /\ cv.cwnd <= cv_last.pre.cwnd
          /\ cv.cwnd >= cv_last.pre.cwnd \div 2
          /\ cv.last_loss = cv_last.now
    /\ s4.stage = 1 => cv.cwnd = 100 * FP
    /\ s4.stage = 2 => cv.cwnd = 100 * FP
    /\ s4.stage = 3 => cv.cwnd = 50 * FP

\* C10 witness: the three calls of the scenario have been made.
C10_Witness == s4.stage = 3 /\ cv_last.kind = "loss" /\ cv_last.pre.cwnd = 100 * FP

\* C7: in every reachable RunDecoder state bottom_run <= top_run and
\* top_run - bottom_run <= 100.
C7_RunWindow ==
    /\ decoder.bottom_run <= decoder.top_run
    /\ decoder.top_run - decoder.bottom_run <= 100

\* C7 witness: an input beyond top_run moved bottom_run up by several runs.
C7_Witness ==
    /\ rd_last.called
    /\ rd_last.run_no > rd_last.pre.top_run + 1
    /\ decoder.bottom_run > rd_last.pre.bottom_run + 1
    /\ decoder.top_run - decoder.bottom_run = 100

\* C8: after run_no 0..149 in ascending order bottom_run = 49 and run 40 has
\* no decoder; an input with run_no < bottom_run returns None and leaves the
\* RunDecoder unchanged.
C8_RunEviction ==
    /\ rd_asc = 150 => (decoder.bottom_run = 49 /\ decoder.top_run = 149
                         /\ 40 \notin DOMAIN decoder.decoders)
    /\ (rd_last.called /\ rd_last.run_no < rd_last.pre.bottom_run)
       => (rd_last.ret = None /\ decoder = rd_last.pre)

\* C8 witness: the 150 ascending inputs were made and then a shard of run 40
\* was input.
C8_Witness ==
    /\ rd_last.called /\ rd_last.run_no = 40 /\ rd_calls = 1
    /\ rd_last.pre.top_run = 149 /\ rd_last.pre.bottom_run = 49
    /\ 49 \in DOMAIN decoder.decoders

RECURSIVE FlatBatches(_)
FlatBatches(runs) ==
    IF runs = <<>> THEN <<>> ELSE Batch(Head(runs), 2) \o FlatBatches(Tail(runs))

\* xs is the beginning of ys
IsPrefix(xs, ys) == Len(xs) <= Len(ys) /\ xs = SubSeq(ys, 1, Len(xs))

\* C2 as stated: the payloads put on the application queue, followed by
\* those the receive loop still has to send, are exactly the batches of the
\* runs the decoder signalled, run after run and in batch order; no payload
\* is put on the queue twice; between frames nothing is left to send.
C2_Original ==
    /\ delivered \o recv_out = FlatBatches(rd_some)
    /\ \A i, j \in DOMAIN delivered : i # j => delivered[i] # delivered[j]
    /\ recv_pc = "recv" => recv_out = <<>>

\* C2 amended: while the Session holds the receiving end of the application
\* queue, the payloads put on the queue, followed by those the receive loop
\* still has to send, are exactly the batches the decoder returned, signal
\* after signal and in batch order, one delivery of the batch per signal;
\* once the receiving end is dropped nothing more is delivered, so that the
\* payloads delivered are the beginning of that sequence; between frames
\* nothing is left to send.
C2_DecodedDelivered ==
    /\ RecvInputHeld => delivered \o recv_out = FlatBatches(rd_some)
    /\ IsPrefix(delivered, FlatBatches(rd_some))
    /\ recv_pc = "recv" => recv_out = <<>>

\* C2 witness: a run was decoded from reordered shards and delivered in
\* order, the application took the payloads, and a later run was decoded and
\* its first payload delivered while the second waits in the for loop.
C2_Witness ==
    /\ rd_some = <<0, 150>>
    /\ delivered = Batch(0, 2) \o <<Batch(150, 2)[1]>>
    /\ recv_out = <<Batch(150, 2)[2]>>
    /\ rp_last.called /\ rp_last.seqno = 450
    /\ RecvInputHeld

\* C4: once the Session is dropped, the session task is cancelled (it is
\* closed, to be polled no further than the suspension of a poll under way,
\* or its future is gone) and every closure registered with on_drop has run
\* exactly once.
C4_DropRunsClosures ==
    dropped => (task \in {"closed", "cancelled"} /\ \A c \in registered : ran[c] = 1)

\* C5: the receive loop does not hold the decoder mutex while it is suspended
\* on delivering decoded payloads to the application queue.
C5_MutexNotHeldDelivering == recv_pc = "deliver" => mutex # "recv"

\* C11: send_bytes never blocks: it can be called whatever the state of the
\* queue; when the queue already holds 1000 payloads the offered payload is
\* dropped and the queue is unchanged, otherwise the payload is appended; the
\* queue never holds more than 1000.
C11_SendBytesNeverBlocks ==
    /\ (~dropped /\ sb_calls < MaxSends) => ENABLED SendBytes
    /\ Len(tosend_q) <= 1000
    /\ sb_last.called =>
          IF Len(sb_last.pre) >= 1000
          THEN ~sb_last.ok /\ sb_last.post = sb_last.pre
          ELSE sb_last.ok /\ sb_last.post = Append(sb_last.pre, sb_last.payload)
    /\ (sb_last.called /\ ~sb_last.ok) =>
          \A i \in DOMAIN accepted : accepted[i] # sb_last.payload

\* C11 witness: a payload was offered to a queue of 1000 and dropped, after
\* the call before it had filled the last free slot.
C11_Witness ==
    /\ sb_last.called /\ ~sb_last.ok
    /\ Len(sb_last.pre) = 1000
    /\ sb_last.pre[1000] = sb_last.payload - 1

\* C12: the k-th frame put on the outbound channel has frame_no k-1; the
\* frames of the n-th batch carry run_no n-1, the batch's size as data_shards,
\* one parity_shards value, and run_idx 0, 1, 2, ... in emission order; a run
\* starts only after the run before it has been emitted whole.
C12_FrameNumbering ==
    /\ \A i \in DOMAIN emitted : emitted[i].frame_no = i - 1
    /\ emitted # <<>> => (emitted[1].run_no = 0 /\ emitted[1].run_idx = 0)
    /\ \A i \in DOMAIN emitted :
          /\ emitted[i].run_no + 1 \in DOMAIN batches
          /\ emitted[i].data_shards = Len(batches[emitted[i].run_no + 1])
    /\ \A i \in 1..(Len(emitted) - 1) :
          LET a == emitted[i]
              b == emitted[i + 1]
          IN  \/ /\ b.run_no = a.run_no
                 /\ b.run_idx = a.run_idx + 1
                 /\ b.data_shards = a.data_shards
                 /\ b.parity_shards = a.parity_shards
              \/ /\ b.run_no = a.run_no + 1
                 /\ b.run_idx = 0
                 /\ a.run_idx = a.data_shards + a.parity_shards - 1

\* C12 witness: two batches were emitted whole, the first of 3 payloads with
\* a parity shard, the send loop having waited for room in the channel, and
\* the frames were all taken off the channel.
C12_Witness ==
    /\ send_run_no = 2 /\ send_pc = "wait" /\ send_frame_open
    /\ Len(batches[1]) = 3
    /\ emitted[4].run_idx = 3 /\ emitted[4].parity_shards = 1
    /\ emitted[Len(emitted)].run_no = 1
    /\ emit_last.waited
    /\ send_frame = <<>>

RECURSIVE Flatten(_)
Flatten(ss) == IF ss = <<>> THEN <<>> ELSE Head(ss) \o Flatten(Tail(ss))

\* C13: the batches formed so far, then the batch being accumulated, then the
\* payloads still queued, are exactly the payloads the queue accepted, in
\* order; every batch formed holds between 1 and 32 payloads.
C13_BatchPartition ==
    /\ Flatten(batches) \o (IF send_pc \in {"batch", "pass"} THEN to_send ELSE <<>>)
                         \o tosend_q
          = accepted
    /\ \A i \in DOMAIN batches : 1 <= Len(batches[i]) /\ Len(batches[i]) <= 32
    /\ send_pc \in {"batch", "pass"} => (1 <= Len(to_send) /\ Len(to_send) < 32)

\* C13 witness: a batch of 32 was closed by its size; the next batch took the
\* payload left over and one that send_bytes queued meanwhile, and was closed
\* by the timer between two passes, while a payload that had arrived after
\* that one was waiting on the queue.
C13_Witness ==
    /\ Len(batches) = 2
    /\ Len(batches[1]) = 32 /\ batches[2] = <<33, TosendCap + 1>>
    /\ tosend_q = <<TosendCap + 2>>
    /\ sb_last.called /\ sb_last.ok /\ sb_last.pre = <<TosendCap + 1>>

RECURSIVE SumTrue(_)
SumTrue(S) ==
    IF S = {} THEN 0
    ELSE LET x == CHOOSE y \in S : TRUE IN rp_true[x] + SumTrue(S \ {x})

RECURSIVE MaxOf(_)
MaxOf(S) ==
    IF S = {} THEN 0
    ELSE LET x == CHOOSE y \in S : TRUE IN Max(x, MaxOf(S \ {x}))

\* the counters are the maximum frame_no and the number of the frames the
\* replay filter admitted; a frame it rejected left the counters,
\* measured_loss and the run decoder as they were
RecvCountersExact ==
    /\ high_recv_frame_no = MaxOf({x \in AllSeqnos : rp_true[x] > 0})
    /\ total_recv_frames = SumTrue(AllSeqnos)
    /\ (rp_last.called /\ ~rp_last.ret) =>
          /\ high_recv_frame_no = recv_pre.high_recv_frame_no
          /\ total_recv_frames = recv_pre.total_recv_frames
          /\ measured_loss = recv_pre.measured_loss
          /\ decoder = recv_pre.decoder

\* C14 as stated: the counters are exact, and every frame carries the values
\* the counters have at the moment it is put on the outbound channel.
C14_Original ==
    /\ RecvCountersExact
    /\ emit_last.called =>
          /\ emit_last.frame.high_recv_frame_no = emit_last.high_recv_frame_no
          /\ emit_last.frame.total_recv_frames = emit_last.total_recv_frames

\* C14 amended: the counters are exact, and every frame carries the values
\* the counters had when the send loop built it: the current ones if
\* send_async completed at once, and otherwise values read before the
\* suspension, which may be lower than the current ones and are never higher.
C14_FeedbackCounters ==
    /\ RecvCountersExact
    /\ emit_last.called =>
          /\ ~emit_last.waited =>
                /\ emit_last.frame.high_recv_frame_no = emit_last.high_recv_frame_no
                /\ emit_last.frame.total_recv_frames = emit_last.total_recv_frames
          /\ emit_last.frame.high_recv_frame_no <= emit_last.high_recv_frame_no
          /\ emit_last.frame.total_recv_frames <= emit_last.total_recv_frames
    /\ send_pc = "blocked" =>
          /\ pending[1].high_recv_frame_no <= high_recv_frame_no
          /\ pending[1].total_recv_frames <= total_recv_frames
    /\ \A i \in 1..(Len(emitted) - 1) :
          /\ emitted[i].high_recv_frame_no <= emitted[i + 1].high_recv_frame_no
          /\ emitted[i].total_recv_frames <= emitted[i + 1].total_recv_frames

\* C14 witness: frames were admitted and one was rejected while a send_async
\* was suspended; the frame it held then went out with the earlier values.
C14_Witness ==
    /\ emit_last.called /\ emit_last.waited
    /\ emit_last.frame.total_recv_frames < emit_last.total_recv_frames
    /\ emit_last.frame.high_recv_frame_no < emit_last.high_recv_frame_no
    /\ emit_last.frame = emitted[Len(emitted)]
    /\ rp_last.called /\ ~rp_last.ret

\* C15: once a batch is formed, the send loop finishes emitting its frames
\* and returns to wait for the next batch, provided the session task is
\* scheduled and the outbound channel is drained or closed, whatever the
\* receive loop and the stats loop are doing.
C15_EmissionCompletes ==
    \A r \in 0..(MaxBatches - 1) :
        (send_run_no = r /\ send_pc \in {"emit", "blocked"}) ~> (send_run_no > r)

\* C15 witness: the send loop put on the channel a frame it had been
\* suspended on, and finished a batch, while the receive loop was suspended
\* on the full application queue with the decoder mutex and the stats loop
\* was waiting for that mutex.
C15_Witness ==
    /\ emit_last.called /\ emit_last.waited
    /\ emit_last.recv_pc = "deliver" /\ emit_last.mutex = "recv"
    /\ emit_last.stats_pc = "lock"
    /\ emit_last.frame.total_recv_frames < emit_last.total_recv_frames
    /\ send_run_no >= 1 /\ send_pc \in {"wait", "first"}
    /\ emit_last.frame.run_no = send_run_no - 1

\* C16: add returns false for every id below the floor; a call that returns
\* false leaves top_seqno, bottom_seqno and seen_seqno unchanged; no call
\* lowers the floor.
C16_BelowFloorRejected ==
    rp_last.called =>
       /\ rp_last.seqno < rp_last.pre.bottom_seqno => ~rp_last.ret
       /\ ~rp_last.ret => rp_filter = rp_last.pre
       /\ rp_filter.bottom_seqno >= rp_last.pre.bottom_seqno

\* C16 witness: after the window had moved up, an id below the new floor
\* that had been inside the window before was offered and rejected.
C16_Witness ==
    /\ rp_last.called /\ ~rp_last.ret
    /\ rp_last.seqno < rp_last.pre.bottom_seqno
    /\ rp_true[rp_last.seqno] = 1
    /\ rp_filter.top_seqno > rp_filter.bottom_seqno

\* C17: when add(x) returns true the floor becomes max(floor, x - 1000); so
\* once 1010 is admitted with the floor at most 10 the floor is 10, and then
\* add(9) returns false and add(11), not admitted before, returns true.
C17_FloorAfterAdmit ==
    rp_last.called =>
       /\ rp_last.ret =>
             rp_filter.bottom_seqno = Max(rp_last.pre.bottom_seqno, rp_last.seqno - 1000)
       /\ (rp_last.seqno = 1010 /\ rp_last.pre.bottom_seqno <= 10) =>
             (rp_last.ret /\ rp_filter.bottom_seqno = 10)
       /\ (rp_last.seqno = 9 /\ rp_last.pre.bottom_seqno = 10) => ~rp_last.ret
       /\ (rp_last.seqno = 11 /\ rp_last.pre.bottom_seqno = 10
           /\ rp_true[11] = (IF rp_last.ret THEN 1 ELSE 0)) => rp_last.ret

\* C17 witness: on a filter started at 0, 1010 was admitted, 9 was offered
\* and rejected, and then 11 was admitted.
C17_Witness ==
    /\ rp_calls = 3
    /\ rp_last.called /\ rp_last.seqno = 11 /\ rp_last.ret
    /\ rp_last.pre.bottom_seqno = 10 /\ rp_last.pre.top_seqno = 1010
    /\ rp_true[1010] = 1 /\ rp_true[11] = 1
    /\ \A x \in SeqnoVals \ {1010, 11} : rp_true[x] = 0
    /\ rp_filter.bottom_seqno = 10 /\ rp_filter.top_seqno = 11

\* the counter cur is at least 30 above last
LcAdvanced(cur, last) ==
    ~U64Less(cur, last) /\ ~U64Less(U64Sub(cur, last), U64Of(LossStep))

\* One step of the binary long division by the u64 b: the remainder r
\* (below b) is doubled and gives the next bit of the quotient q.
LcDivBit(st, b) ==
    IF st.n = F64Mantissa THEN st
    ELSE LET c3  == 2 * st.r[3]
             c2  == 2 * st.r[2] + c3 \div Limb
             r2  == <<2 * st.r[1] + c2 \div Limb, c2 % Limb, c3 % Limb>>
             bit == IF U64Less(r2, b) THEN 0 ELSE 1
         IN  [r |-> IF bit = 1 THEN U64Sub(r2, b) ELSE r2,
              q |-> M2Double(st.q, bit), n |-> st.n + 1]

LcDivBit8(st, b) ==
    LcDivBit(LcDivBit(LcDivBit(LcDivBit(LcDivBit(LcDivBit(LcDivBit(LcDivBit(
        st, b), b), b), b), b), b), b), b)

RECURSIVE LcDivBits(_, _)
LcDivBits(st, b) ==
    IF st.n = F64Mantissa THEN st ELSE LcDivBits(LcDivBit8(st, b), b)

\* floor(2^53 * a / b) for u64 a < b, as a two-limb number
LcQuotient53(a, b) == LcDivBits([r |-> a, q |-> <<0, 0>>, n |-> 0], b).q

\* floor(2^53 * x) for an f64 x in [0, 1], as a two-limb number
LcFloor53(x) ==
    IF x.cls = "zero" \/ x.k > F64Mantissa + 1 THEN <<0, 0>>
    ELSE IF x.k = 0 THEN <<HalfLimb, 0>>
    ELSE LET s == x.k - 1
         IN  IF s < 27
             THEN <<x.hi \div 2^s, (x.hi % 2^s) * 2^(27 - s) + x.lo \div 2^s>>
             ELSE <<0, x.hi \div 2^(s - 27)>>

\* two-limb numbers that differ by at most 1
LcNear(a, b) == a = b \/ M2Succ(a) = b \/ M2Succ(b) = a

\* x is a number of [0, 1]
LcInUnit(x) == x.cls = "zero" \/ (x.cls = "num" /\ (x.k >= 1 \/ x = F64One))

\* C18: update_params records a sample only when both counters have advanced
\* by at least 30 since the last recorded sample; a call that records
\* nothing leaves the calculator unchanged; a recorded sample is a number of
\* [0, 1] and equals 1 - dTotal / max(dHigh, dTotal), dHigh and dTotal being
\* the advances of the counters, up to the rounding of f64 arithmetic
\* (within 2^-52).
C18_LossSample ==
    lc_last.called =>
       /\ lc_last.recorded =>
             /\ LcAdvanced(lc_last.top_seqno, lc_last.pre.last_top_seqno)
             /\ LcAdvanced(lc_last.total_seqno, lc_last.pre.last_total_seqno)
       /\ ~lc_last.recorded => loss_calc = lc_last.pre
       /\ lc_last.recorded =>
             LET x      == loss_calc.loss_samples[Len(loss_calc.loss_samples)]
                 dHigh  == U64Sub(lc_last.top_seqno, lc_last.pre.last_top_seqno)
                 dTotal == U64Sub(lc_last.total_seqno, lc_last.pre.last_total_seqno)
                 dMax   == IF U64Less(dHigh, dTotal) THEN dTotal ELSE dHigh
             IN  /\ LcInUnit(x)
                 /\ LcNear(LcFloor53(x), LcQuotient53(U64Sub(dMax, dTotal), dMax))
                 /\ loss_calc.last_top_seqno = lc_last.top_seqno
                 /\ loss_calc.last_total_seqno = lc_last.total_seqno

\* the samples at or below m, and at or above m
LcAtMost(m) ==
    Cardinality({i \in DOMAIN loss_calc.loss_samples : ~F64Less(m, loss_calc.loss_samples[i])})
LcAtLeast(m) ==
    Cardinality({i \in DOMAIN loss_calc.loss_samples : ~F64Less(loss_calc.loss_samples[i], m)})

\* the calculator holds at most 256 samples, the most recently recorded ones
\* in order, and the median is one of them, with at least half of them at or
\* below it and at least half at or above it
LcRetained ==
    /\ Len(loss_calc.loss_samples) <= 256
    /\ Len(loss_calc.loss_samples) = Min(256, Len(lc_hist))
    /\ loss_calc.loss_samples
          = SubSeq(lc_hist, Len(lc_hist) - Len(loss_calc.loss_samples) + 1, Len(lc_hist))
    /\ loss_calc.loss_samples # <<>> =>
          /\ \E i \in DOMAIN loss_calc.loss_samples :
                loss_calc.loss_samples[i] = loss_calc.median
          /\ 2 * LcAtMost(loss_calc.median) >= Len(loss_calc.loss_samples)
          /\ 2 * LcAtLeast(loss_calc.median) >= Len(loss_calc.loss_samples)

\* q * x and p * 2^(k + 52) as three limbs, for an f64 number x of binade
\* k >= 1 and p, q up to 10: x is above p / q when the first is the larger
LcTimes(x, q) ==
    LET l0 == q * x.lo
        l1 == q * x.hi + l0 \div Limb
    IN  <<l1 \div Limb, l1 % Limb, l0 % Limb>>
LcScaled(p, k) ==
    IF k >= 2 THEN <<p * 2^(k - 2), 0, 0>>
    ELSE <<(p * HalfLimb) \div Limb, (p * HalfLimb) % Limb, 0>>
LcAbove(x, p, q) == x.cls = "num" /\ U64Less(LcScaled(p, x.k), LcTimes(x, q))
LcBelow(x, p, q) == x.cls = "zero" \/ (x.cls = "num" /\ U64Less(LcTimes(x, q), LcScaled(p, x.k)))

\* the feed S2Feed has just been given to a fresh calculator
LcAfterS2 == lc_last.s2 = Len(S2Feed) /\ lc_last.drive = 0

\* the f64 values of 1.0 - 80.0 / 100.0 and of 1.0 - 70.0 / 100.0
LcS2Low == F64Num(3, <<53687091, 26843544>>)
LcS2Mid == F64Num(2, <<40265318, 53687092>>)

\* C19 as stated: after every call that returns, the retained samples are the
\* 256 most recent and the median is theirs, and after the feed (0,0), (100,80), (200,150), (300,220) the
\* published median is within 0.25 +/- 0.05, that is at least 0.2 and at
\* most 0.3.
C19_Original ==
    /\ ~lc_last.panic => LcRetained
    /\ LcAfterS2 =>
          /\ ~LcBelow(loss_calc.median, 1, 5)
          /\ ~LcAbove(loss_calc.median, 3, 10)

\* C19: after every call that returns, the calculator holds at most 256
\* samples, the most recently recorded ones in order, and the median is
\* theirs; after the feed (0,0), (100,80),
\* (200,150), (300,220) the published median is the f64 value of
\* 1.0 - 70.0 / 100.0, which lies above 3/10 = 0.25 + 0.05 by less than
\* 2^-53.
C19_MedianOfLast256 ==
    /\ ~lc_last.panic => LcRetained
    /\ LcAfterS2 =>
          /\ loss_calc.loss_samples = <<LcS2Low, LcS2Mid, LcS2Mid>>
          /\ loss_calc.median = LcS2Mid
          /\ LcAbove(loss_calc.median, 3, 10)
          /\ U64Less(LcTimes(loss_calc.median, 10), U64Add(LcScaled(3, 2), 20).val)

\* C19 witness: after the feed, 260 further samples were recorded, so that
\* the three samples of the feed and four more have been discarded.
C19_Witness ==
    /\ lc_last.s2 = 4 /\ lc_last.drive = 260
    /\ Len(lc_hist) = 263 /\ lc_hist[1] = LcS2Low /\ lc_hist[2] = LcS2Mid
    /\ Len(loss_calc.loss_samples) = 256
    /\ loss_calc.loss_samples[1] = lc_hist[8]
    /\ loss_calc.loss_samples[1] # lc_hist[7]

\* the good, and the good and lost, packet counts of the decoders decs holds
\* for the runs of S in lo..hi, summed by halving the range
RECURSIVE SumGood(_, _, _, _)
SumGood(decs, S, lo, hi) ==
    IF lo > hi THEN 0
    ELSE IF lo = hi
    THEN IF lo \in S THEN FrameDecoder_good_pkts(decs[lo]) ELSE 0
    ELSE LET mid == (lo + hi) \div 2
         IN  SumGood(decs, S, lo, mid) + SumGood(decs, S, mid + 1, hi)
RECURSIVE SumAll(_, _, _, _)
SumAll(decs, S, lo, hi) ==
    IF lo > hi THEN 0
    ELSE IF lo = hi
    THEN IF lo \in S
         THEN FrameDecoder_good_pkts(decs[lo]) + FrameDecoder_lost_pkts(decs[lo])
         ELSE 0
    ELSE LET mid == (lo + hi) \div 2
         IN  SumAll(decs, S, lo, mid) + SumAll(decs, S, mid + 1, hi)

\* the runs whose decoder the last input call evicted: those retained before
\* the call and below bottom_run after it
RdEvicted == {r \in DOMAIN rd_last.pre.decoders : r < decoder.bottom_run}

\* C20: every run with a retained decoder lies in [bottom_run, top_run], so
\* at most 101 decoders are retained; an input call removes the decoders of
\* the runs that fell below bottom_run and no other, and adds the good and
\* lost packet counts of each removed decoder to the totals once;
\* correct_count <= total_count.
C20_RetainedDecoders ==
    /\ \A r \in DOMAIN decoder.decoders :
          decoder.bottom_run <= r /\ r <= decoder.top_run
    /\ Cardinality(DOMAIN decoder.decoders) <= 101
    /\ decoder.correct_count <= decoder.total_count
    /\ rd_last.called =>
          /\ DOMAIN rd_last.pre.decoders \ RdEvicted \subseteq DOMAIN decoder.decoders
          /\ RdEvicted \cap DOMAIN decoder.decoders = {}
          /\ decoder.total_count
                = rd_last.pre.total_count
                  + SumAll(rd_last.pre.decoders, RdEvicted, 0, decoder.bottom_run)
          /\ decoder.correct_count
                = rd_last.pre.correct_count
                  + SumGood(rd_last.pre.decoders, RdEvicted, 0, decoder.bottom_run)

\* C20 witness: with 101 decoders retained, among them the completed one of
\* run 40, an input of run 260 moved bottom_run to 160 and evicted them all,
\* some with lost packets.
C20_Witness ==
    /\ rd_last.called /\ rd_last.run_no = 260
    /\ Cardinality(DOMAIN rd_last.pre.decoders) = 101
    /\ 40 \in DOMAIN rd_last.pre.decoders /\ rd_last.pre.decoders[40].done
    /\ decoder.bottom_run = 160 /\ DOMAIN decoder.decoders = {260}
    /\ RdEvicted = DOMAIN rd_last.pre.decoders
    /\ decoder.correct_count > rd_last.pre.correct_count + 101
    /\ decoder.total_count > decoder.correct_count

====
